---- MODULE Spec2Model ----
(***************************************************************************)
(* Model of the korangar render core: the instance batchers of the         *)
(* geometry, picker, screen and point-shadow passes (prepare / upload /    *)
(* draw), the post-processing blitter, the camera math of                  *)
(* graphics/cameras/mod.rs and the water plane of the map loader.          *)
(*                                                                         *)
(* One drawer object is followed per behaviour; `kind` says which drawer   *)
(* type it is.  Camera math is exact rational arithmetic (the reals the    *)
(* f32 values approximate); square roots are kept symbolically.  The       *)
(* reverse screen / clip conversion is also modelled in f32 arithmetic,    *)
(* where its rounding decides what a round trip returns.                   *)
(***************************************************************************)
EXTENDS Integers, Sequences, FiniteSets, TLC

\* ---------------------------------------------------------------- bounds
\* Longest instruction list handed to prepare.
MaxInstr == 3
\* Number of distinct entities an entity instruction can stand for.
NumEntities == 3
\* Number of distinct boxes an AABB instruction can stand for.
NumBoxes == 2
\* Stands for INITIAL_INSTRUCTION_SIZE (256 / 128 in the source), scaled down
\* so that buffer growth happens within MaxInstr instructions.
InitialCapacity == 2
\* Stands for crate::MAX_BINDING_TEXTURE_ARRAY_COUNT, scaled down.
MAX_BINDING_TEXTURE_ARRAY_COUNT == 4

\* ------------------------------------------------------------- constants
\* Vertices of the entity quad: pass.draw(0..6, ..).
QUAD_VERTEX_COUNT == 6
\* Indices of the box outline: INDEX_COUNT in screen/aabb.rs.
INDEX_COUNT == 24

VARIABLES
    \* --- the drawer under examination
    kind,                 \* "entity" | "picker" | "aabb" | "point_shadow"
    partially_bound,      \* features_supported(PARTIALLY_BOUND_BINDING_ARRAY)
    draw_count,           \* self.draw_count
    instance_data,        \* self.instance_data
    lookup,               \* self.lookup : texture id -> slot (NoSlot = absent)
    instance_data_buffer, \* self.instance_data_buffer
    bind_group,           \* self.bind_group
    \* --- environment of the drawer
    instructions,         \* list handed to the latest prepare
    pass,                 \* commands the latest draw call recorded in the open
                          \* render pass (prepare and upload run on the command
                          \* encoder, outside any render pass)
    last_op,              \* "new" | "prepare" | "upload" | "draw" | "panic"
    \* --- fields only the point shadow model drawer has
    bindless_support,             \* self.bindless_support
    multi_draw_indirect_support,  \* self.multi_draw_indirect_support
    instance_indices,             \* self.instance_indices
    draw_commands,                \* self.draw_commands
    instance_index_vertex_buffer, \* self.instance_index_vertex_buffer
    command_buffer,               \* self.command_buffer
    draw_data,                    \* model_offset / model_count of the latest draw
    \* --- the post-processing blitter and its context
    surface_texture_format,  \* global_context.surface_texture_format
    color_texture_format,    \* render_pass_context.color_attachment_formats()[0]
    msaa,                    \* global_context.msaa
    pipeline_cache,          \* self.pipeline_cache : set of [key, pipeline]
    blit_key,                \* PipelineKey of the latest blitter draw, or None
    blit_pass,               \* commands of the latest blitter draw
    blit_status,             \* "new" | "draw" | "panic"
    \* --- the camera and the values its functions were last applied to
    camera_position,      \* Camera::camera_position()
    focus_point,          \* Camera::focus_point()
    projection,           \* cached projection matrix and how it was built
    view_position,        \* view-space point handed to the projection, or None
    clip_space_position,  \* clip-space vector under conversion, or None
    screen_space_position,\* result of clip_to_screen_space, or None
    converted,            \* result of screen_to_clip_space, or None
    octant,               \* result of camera_direction, or NoOctant
    \* --- the reverse conversion in f32 arithmetic
    f32_screen_space_position, \* screen position handed to screen_to_clip_space
    f32_clip_space_position,   \* result of screen_to_clip_space, or None
    f32_round_trip,            \* clip_to_screen_space of that result, or None
    \* --- the map loader's water plane
    ground_tiles,         \* ground_data.ground_tiles
    ground_width,         \* ground_data.width
    water_settings,       \* [water_level, wave_height], each a number or Unset
    water_vertices,       \* vertices returned by generate_vertices
    water_indices,        \* indices returned by generate_vertices
    water_plane           \* "unloaded" | "none" | "some"

drawer_vars == <<kind, partially_bound, draw_count, instance_data, lookup,
                 instance_data_buffer, bind_group, instructions, pass, last_op>>

shadow_vars == <<bindless_support, multi_draw_indirect_support, instance_indices,
                 draw_commands, instance_index_vertex_buffer, command_buffer, draw_data>>

blitter_vars == <<surface_texture_format, color_texture_format, msaa, pipeline_cache,
                  blit_key, blit_pass, blit_status>>

camera_vars == <<camera_position, focus_point, projection, view_position,
                 clip_space_position, screen_space_position, converted, octant>>

reverse_vars == <<f32_screen_space_position, f32_clip_space_position, f32_round_trip>>

water_vars == <<ground_tiles, ground_width, water_settings, water_vertices, water_indices,
                water_plane>>

vars == <<drawer_vars, shadow_vars, blitter_vars, camera_vars, reverse_vars, water_vars>>

\* ------------------------------------------------------------ data types
\* Every drawn entity has its own world matrix, which stands for all the
\* fields copied verbatim into the instance record, and a sprite texture;
\* entities 2k-1 and 2k share texture k.
Worlds == 1..NumEntities
TextureOf(world) == (world + 1) \div 2
Textures == {TextureOf(world) : world \in Worlds}
\* global_context.solid_pixel_texture; no instruction references it.
SolidPixel == 0
\* Absent key of the lookup table (HashMap::get returning None).
NoSlot == -1

\* One entry of instructions.entities: the texture and the copied payload.
EntityInstruction == {[world |-> world, texture |-> TextureOf(world)] : world \in Worlds}
\* One entry of instructions.aabb.
AabbInstruction == [world : 1..NumBoxes]

RECURSIVE SeqsUpTo(_, _)
SeqsUpTo(S, n) ==
    IF n = 0 THEN {<<>>}
    ELSE LET shorter == SeqsUpTo(S, n - 1)
         IN shorter \cup {Append(s, e) : s \in {t \in shorter : Len(t) = n - 1}, e \in S}

EntityLists == SeqsUpTo(EntityInstruction, MaxInstr)
AabbLists == SeqsUpTo(AabbInstruction, MaxInstr)

\* usize::saturating_sub
saturating_sub(a, b) == IF a > b THEN a - b ELSE 0

\* ------------------------------------------------------------ GPU buffer
\* crate::graphics::Buffer.  A buffer only grows, so its capacity also
\* identifies the allocation: a reallocation yields a larger capacity.
\* The bytes held by the buffer are not tracked.
Buffer_with_capacity(capacity) == [capacity |-> capacity]

RECURSIVE GrownCapacity(_, _)
GrownCapacity(capacity, count) ==
    IF capacity >= count THEN capacity ELSE GrownCapacity(2 * capacity, count)

\* Buffer::reserve: reallocate when `count` elements do not fit.
Buffer_reserve(buffer, count) ==
    IF count > buffer.capacity
    THEN [capacity |-> GrownCapacity(buffer.capacity, count)]
    ELSE buffer

\* Buffer::write: make room for `data`, then copy it to the device.
Buffer_write(buffer, data) == Buffer_reserve(buffer, Len(data))

\* The bool Buffer::write returns.
Buffer_recreated(before, after) == after.capacity # before.capacity

\* ------------------------------------------------------------ bind group
\* create_bind_group: binding 0 is the instance buffer, binding 1 the
\* texture view array (empty for the AABB drawer, which has no binding 1).
create_bind_group(buffer, texture_views) ==
    [buffer |-> buffer.capacity, texture_views |-> texture_views]

RECURSIVE Repeat(_, _)
Repeat(e, n) == IF n <= 0 THEN <<>> ELSE <<e>> \o Repeat(e, n - 1)

\* if texture_views.is_empty() { push(solid_pixel) }
push_fallback(texture_views) ==
    IF texture_views = <<>> THEN <<SolidPixel>> ELSE texture_views

\* Variant that pads with the fallback texture instead of slot 0.
pad_texture_views_WithFallback(texture_views, supported) ==
    IF supported THEN texture_views
    ELSE texture_views
         \o Repeat(SolidPixel,
                   saturating_sub(MAX_BINDING_TEXTURE_ARRAY_COUNT, Len(texture_views)))

\* if !features_supported(PARTIALLY_BOUND_BINDING_ARRAY) { pad with [0] }
pad_texture_views(texture_views, supported) ==
    IF supported THEN texture_views
    ELSE texture_views
         \o Repeat(texture_views[1],
                   saturating_sub(MAX_BINDING_TEXTURE_ARRAY_COUNT, Len(texture_views)))

EmptyLookup == [t \in Textures |-> NoSlot]
EmptyBatch == [instance_data |-> <<>>, lookup |-> EmptyLookup, texture_views |-> <<>>]

\* ------------------------------------------------- geometry entity drawer
\* Body of the loop of GeometryEntityDrawer::prepare for one instruction.
GeometryEntity_step_NoLookup(acc, instruction) ==
    LET texture_index == Len(acc.texture_views)
    IN [instance_data |-> Append(acc.instance_data,
                                 [world |-> instruction.world, texture_index |-> texture_index]),
        lookup |-> [acc.lookup EXCEPT ![instruction.texture] = texture_index],
        texture_views |-> Append(Append(acc.texture_views, instruction.texture),
                                 instruction.texture)]

\* Variant that numbers the slots by the distinct handles seen so far.
GeometryEntity_step_DenseSlots(acc, instruction) ==
    LET id == instruction.texture
        fresh == Cardinality({t \in Textures : acc.lookup[t] # NoSlot})
        hit == acc.lookup[id] # NoSlot
        texture_index == IF hit THEN acc.lookup[id] ELSE fresh
        new_lookup == IF hit THEN acc.lookup ELSE [acc.lookup EXCEPT ![id] = fresh]
        views_1 == IF hit THEN acc.texture_views
                   ELSE Append(acc.texture_views, instruction.texture)
    IN [instance_data |-> Append(acc.instance_data,
                                 [world |-> instruction.world, texture_index |-> texture_index]),
        lookup |-> new_lookup,
        texture_views |-> Append(views_1, instruction.texture)]

GeometryEntity_step(acc, instruction) ==
    LET id == instruction.texture
        fresh == Len(acc.texture_views)
        hit == acc.lookup[id] # NoSlot
        texture_index == IF hit THEN acc.lookup[id] ELSE fresh
        new_lookup == IF hit THEN acc.lookup ELSE [acc.lookup EXCEPT ![id] = fresh]
        views_1 == IF hit THEN acc.texture_views
                   ELSE Append(acc.texture_views, instruction.texture)
    IN [instance_data |-> Append(acc.instance_data,
                                 [world |-> instruction.world, texture_index |-> texture_index]),
        lookup |-> new_lookup,
        \* entity.rs:229 pushes the view once more for every instruction
        texture_views |-> Append(views_1, instruction.texture)]

RECURSIVE GeometryEntity_loop(_, _)
GeometryEntity_loop(list, acc) ==
    IF list = <<>> THEN acc
    ELSE GeometryEntity_loop(Tail(list), GeometryEntity_step(acc, Head(list)))

\* The loop of prepare, tabulated over the instruction lists.
GeometryEntity_batch == [list \in EntityLists |-> GeometryEntity_loop(list, EmptyBatch)]

GeometryEntityDrawer_new ==
    /\ kind = "entity"
    /\ draw_count = 0
    /\ instance_data = <<>>
    /\ lookup = EmptyLookup
    /\ instance_data_buffer = Buffer_with_capacity(InitialCapacity)
    /\ bind_group = create_bind_group(Buffer_with_capacity(InitialCapacity),
                                      pad_texture_views(<<SolidPixel>>, partially_bound))

\* Variant without the three clear() calls: the loop continues the arrays
\* and the table of the previous frame.
GeometryEntityDrawer_prepare_NoClear(list) ==
    /\ kind = "entity"
    /\ instructions' = list
    /\ last_op' = "prepare"
    /\ draw_count' = Len(list)
    /\ IF Len(list) = 0
       THEN UNCHANGED <<instance_data, lookup, instance_data_buffer, bind_group>>
       ELSE LET batch == GeometryEntity_loop(list,
                             [instance_data |-> instance_data, lookup |-> lookup,
                              texture_views |-> <<>>])
                texture_views == pad_texture_views(push_fallback(batch.texture_views),
                                                   partially_bound)
                buffer == Buffer_reserve(instance_data_buffer, Len(batch.instance_data))
            IN /\ instance_data' = batch.instance_data
               /\ lookup' = batch.lookup
               /\ instance_data_buffer' = buffer
               /\ bind_group' = create_bind_group(buffer, texture_views)
    /\ pass' = <<>>
    /\ UNCHANGED <<kind, partially_bound>>
    /\ UNCHANGED <<shadow_vars, blitter_vars, camera_vars, reverse_vars, water_vars>>

GeometryEntityDrawer_prepare(list) ==
    /\ kind = "entity"
    /\ instructions' = list
    /\ last_op' = "prepare"
    /\ draw_count' = Len(list)
    /\ IF Len(list) = 0
       THEN UNCHANGED <<instance_data, lookup, instance_data_buffer, bind_group>>
       ELSE LET batch == GeometryEntity_batch[list]
                texture_views == pad_texture_views(push_fallback(batch.texture_views),
                                                   partially_bound)
                buffer == Buffer_reserve(instance_data_buffer, Len(batch.instance_data))
            IN /\ instance_data' = batch.instance_data
               /\ lookup' = batch.lookup
               /\ instance_data_buffer' = buffer
               /\ bind_group' = create_bind_group(buffer, texture_views)
    /\ pass' = <<>>
    /\ UNCHANGED <<kind, partially_bound>>
    /\ UNCHANGED <<shadow_vars, blitter_vars, camera_vars, reverse_vars, water_vars>>

GeometryEntityDrawer_upload ==
    /\ kind = "entity"
    /\ instance_data_buffer' = Buffer_write(instance_data_buffer, instance_data)
    /\ last_op' = "upload"
    /\ pass' = <<>>
    /\ UNCHANGED <<kind, partially_bound, draw_count, instance_data, lookup,
                   bind_group, instructions>>
    /\ UNCHANGED <<shadow_vars, blitter_vars, camera_vars, reverse_vars, water_vars>>

Command(op, arg, count) == [op |-> op, arg |-> arg, count |-> count]

GeometryEntityDrawer_draw_NoGuard ==
    /\ kind = "entity"
    /\ pass' = <<Command("set_pipeline", 0, 0),
                 Command("set_bind_group", 1, 0),
                 Command("draw", QUAD_VERTEX_COUNT, draw_count)>>
    /\ last_op' = "draw"
    /\ UNCHANGED <<kind, partially_bound, draw_count, instance_data, lookup,
                   instance_data_buffer, bind_group, instructions>>
    /\ UNCHANGED <<shadow_vars, blitter_vars, camera_vars, reverse_vars, water_vars>>

\* Variant that consumes the batch: the draw count is reset after drawing.
GeometryEntityDrawer_draw_Consumes ==
    /\ kind = "entity"
    /\ pass' = IF draw_count = 0 THEN <<>>
               ELSE <<Command("set_pipeline", 0, 0),
                      Command("set_bind_group", 1, 0),
                      Command("draw", QUAD_VERTEX_COUNT, draw_count)>>
    /\ last_op' = "draw"
    /\ draw_count' = 0
    /\ UNCHANGED <<kind, partially_bound, instance_data, lookup,
                   instance_data_buffer, bind_group, instructions>>
    /\ UNCHANGED <<shadow_vars, blitter_vars, camera_vars, reverse_vars, water_vars>>

GeometryEntityDrawer_draw ==
    /\ kind = "entity"
    /\ pass' = IF draw_count = 0 THEN <<>>
               ELSE <<Command("set_pipeline", 0, 0),
                      Command("set_bind_group", 1, 0),
                      Command("draw", QUAD_VERTEX_COUNT, draw_count)>>
    /\ last_op' = "draw"
    /\ UNCHANGED <<kind, partially_bound, draw_count, instance_data, lookup,
                   instance_data_buffer, bind_group, instructions>>
    /\ UNCHANGED <<shadow_vars, blitter_vars, camera_vars, reverse_vars, water_vars>>

\* --------------------------------------------------- picker entity drawer
\* Body of the loop of PickerEntityDrawer::prepare for one instruction.
PickerEntity_step(acc, instruction) ==
    LET id == instruction.texture
        fresh == Len(acc.texture_views)
        hit == acc.lookup[id] # NoSlot
        texture_index == IF hit THEN acc.lookup[id] ELSE fresh
        new_lookup == IF hit THEN acc.lookup ELSE [acc.lookup EXCEPT ![id] = fresh]
        views_1 == IF hit THEN acc.texture_views
                   ELSE Append(acc.texture_views, instruction.texture)
    IN [instance_data |-> Append(acc.instance_data,
                                 [world |-> instruction.world, texture_index |-> texture_index]),
        lookup |-> new_lookup,
        \* picker/entity.rs:203 pushes the view once more for every instruction
        texture_views |-> Append(views_1, instruction.texture)]

RECURSIVE PickerEntity_loop(_, _)
PickerEntity_loop(list, acc) ==
    IF list = <<>> THEN acc
    ELSE PickerEntity_loop(Tail(list), PickerEntity_step(acc, Head(list)))

\* instructions.entities.iter().skip(1)
PickerEntity_skipped_NoSkip(list) == list

PickerEntity_skipped(list) == IF list = <<>> THEN <<>> ELSE Tail(list)

\* The loop of prepare, tabulated over the instruction lists.
PickerEntity_batch ==
    [list \in EntityLists |-> PickerEntity_loop(PickerEntity_skipped(list), EmptyBatch)]

PickerEntityDrawer_new ==
    /\ kind = "picker"
    /\ draw_count = 0
    /\ instance_data = <<>>
    /\ lookup = EmptyLookup
    /\ instance_data_buffer = Buffer_with_capacity(InitialCapacity)
    /\ bind_group = create_bind_group(Buffer_with_capacity(InitialCapacity),
                                      pad_texture_views(<<SolidPixel>>, partially_bound))

\* Variant that counts every instruction, the skipped first one included.
PickerEntityDrawer_prepare_CountsAll(list) ==
    /\ kind = "picker"
    /\ instructions' = list
    /\ last_op' = "prepare"
    /\ draw_count' = Len(list)
    /\ IF Len(list) = 0
       THEN UNCHANGED <<instance_data, lookup, instance_data_buffer, bind_group>>
       ELSE LET batch == PickerEntity_batch[list]
                texture_views == pad_texture_views(push_fallback(batch.texture_views),
                                                   partially_bound)
                buffer == Buffer_reserve(instance_data_buffer, Len(batch.instance_data))
            IN /\ instance_data' = batch.instance_data
               /\ lookup' = batch.lookup
               /\ instance_data_buffer' = buffer
               /\ bind_group' = create_bind_group(buffer, texture_views)
    /\ pass' = <<>>
    /\ UNCHANGED <<kind, partially_bound>>
    /\ UNCHANGED <<shadow_vars, blitter_vars, camera_vars, reverse_vars, water_vars>>

PickerEntityDrawer_prepare(list) ==
    /\ kind = "picker"
    /\ instructions' = list
    /\ last_op' = "prepare"
    /\ draw_count' = saturating_sub(Len(list), 1)
    /\ IF saturating_sub(Len(list), 1) = 0
       THEN UNCHANGED <<instance_data, lookup, instance_data_buffer, bind_group>>
       ELSE LET batch == PickerEntity_batch[list]
                texture_views == pad_texture_views(push_fallback(batch.texture_views),
                                                   partially_bound)
                buffer == Buffer_reserve(instance_data_buffer, Len(batch.instance_data))
            IN /\ instance_data' = batch.instance_data
               /\ lookup' = batch.lookup
               /\ instance_data_buffer' = buffer
               /\ bind_group' = create_bind_group(buffer, texture_views)
    /\ pass' = <<>>
    /\ UNCHANGED <<kind, partially_bound>>
    /\ UNCHANGED <<shadow_vars, blitter_vars, camera_vars, reverse_vars, water_vars>>

PickerEntityDrawer_upload ==
    /\ kind = "picker"
    /\ instance_data_buffer' = Buffer_write(instance_data_buffer, instance_data)
    /\ last_op' = "upload"
    /\ pass' = <<>>
    /\ UNCHANGED <<kind, partially_bound, draw_count, instance_data, lookup,
                   bind_group, instructions>>
    /\ UNCHANGED <<shadow_vars, blitter_vars, camera_vars, reverse_vars, water_vars>>

PickerEntityDrawer_draw ==
    /\ kind = "picker"
    /\ pass' = IF draw_count = 0 THEN <<>>
               ELSE <<Command("set_pipeline", 0, 0),
                      Command("set_bind_group", 1, 0),
                      Command("draw", QUAD_VERTEX_COUNT, draw_count)>>
    /\ last_op' = "draw"
    /\ UNCHANGED <<kind, partially_bound, draw_count, instance_data, lookup,
                   instance_data_buffer, bind_group, instructions>>
    /\ UNCHANGED <<shadow_vars, blitter_vars, camera_vars, reverse_vars, water_vars>>

\* ------------------------------------------------------ screen AABB drawer
RECURSIVE ScreenAabb_loop(_, _)
ScreenAabb_loop(list, data) ==
    IF list = <<>> THEN data
    ELSE ScreenAabb_loop(Tail(list), Append(data, [world |-> Head(list).world]))

\* The loop of prepare, tabulated over the instruction lists.
ScreenAabb_batch == [list \in AabbLists |-> ScreenAabb_loop(list, <<>>)]

ScreenAabbDrawer_new ==
    /\ kind = "aabb"
    /\ draw_count = 0
    /\ instance_data = <<>>
    /\ lookup = EmptyLookup
    /\ instance_data_buffer = Buffer_with_capacity(InitialCapacity)
    /\ bind_group = create_bind_group(Buffer_with_capacity(InitialCapacity), <<>>)

\* Variant that clears the instance array before the draw_count test.
ScreenAabbDrawer_prepare_ClearsFirst(list) ==
    /\ kind = "aabb"
    /\ instructions' = list
    /\ last_op' = "prepare"
    /\ draw_count' = Len(list)
    /\ instance_data' = ScreenAabb_batch[list]
    /\ pass' = <<>>
    /\ UNCHANGED <<kind, partially_bound, lookup, instance_data_buffer, bind_group>>
    /\ UNCHANGED <<shadow_vars, blitter_vars, camera_vars, reverse_vars, water_vars>>

ScreenAabbDrawer_prepare(list) ==
    /\ kind = "aabb"
    /\ instructions' = list
    /\ last_op' = "prepare"
    /\ draw_count' = Len(list)
    /\ IF Len(list) = 0
       THEN UNCHANGED instance_data
       ELSE instance_data' = ScreenAabb_batch[list]
    /\ pass' = <<>>
    /\ UNCHANGED <<kind, partially_bound, lookup, instance_data_buffer, bind_group>>
    /\ UNCHANGED <<shadow_vars, blitter_vars, camera_vars, reverse_vars, water_vars>>

ScreenAabbDrawer_upload ==
    /\ kind = "aabb"
    /\ LET buffer == Buffer_write(instance_data_buffer, instance_data)
       IN /\ instance_data_buffer' = buffer
          /\ bind_group' = IF Buffer_recreated(instance_data_buffer, buffer)
                           THEN create_bind_group(buffer, <<>>)
                           ELSE bind_group
    /\ last_op' = "upload"
    /\ pass' = <<>>
    /\ UNCHANGED <<kind, partially_bound, draw_count, instance_data, lookup,
                   instructions>>
    /\ UNCHANGED <<shadow_vars, blitter_vars, camera_vars, reverse_vars, water_vars>>

ScreenAabbDrawer_draw ==
    /\ kind = "aabb"
    /\ pass' = IF draw_count = 0 THEN <<>>
               ELSE <<Command("set_pipeline", 0, 0),
                      Command("set_bind_group", 2, 0),
                      Command("set_vertex_buffer", 0, 0),
                      Command("set_index_buffer", 0, 0),
                      Command("draw_indexed", INDEX_COUNT, draw_count)>>
    /\ last_op' = "draw"
    /\ UNCHANGED <<kind, partially_bound, draw_count, instance_data, lookup,
                   instance_data_buffer, bind_group, instructions>>
    /\ UNCHANGED <<shadow_vars, blitter_vars, camera_vars, reverse_vars, water_vars>>

\* ------------------------------------------------ point shadow model drawer
\* Number of distinct models a point shadow instruction can stand for.
NumModels == 2
\* Largest model_count the draw data of a point shadow draw carries.
MaxCount == 2

Models == 1..NumModels
\* One entry of instructions.point_shadow_models: every model has its own
\* matrix, index range, base vertex and texture.
PointShadowModelInstruction ==
    {[model_matrix |-> m, index_offset |-> 10 * m, index_count |-> 3 * m,
      base_vertex |-> 0 - m, texture_index |-> m - 1] : m \in Models}

PointShadowModelLists == SeqsUpTo(PointShadowModelInstruction, MaxInstr)

\* crate::graphics::BindlessSupport
BindlessSupport == {"Full", "Limited", "None"}

\* batch.model_offset[face_index] and batch.model_count[face_index] of the
\* caster and face selected by draw_data.pass_data; draw_data.instructions is
\* the list the frame's prepare received.
DrawData == [model_offset : 0..1, model_count : 0..MaxCount]
NoDrawData == [model_offset |-> 0, model_count |-> 0]

\* DrawIndexedIndirectArgs { .. }
DrawIndexedIndirectArgs(index_count, instance_count, first_index, base_vertex, first_instance) ==
    [index_count |-> index_count, instance_count |-> instance_count,
     first_index |-> first_index, base_vertex |-> base_vertex,
     first_instance |-> first_instance]

EmptyShadowBatch == [instance_data |-> <<>>, instance_indices |-> <<>>, draw_commands |-> <<>>]

\* Body of the loop of PointShadowModelDrawer::prepare for one instruction;
\* enumerate() counts the instructions already processed.
PointShadowModel_step_FirstInstanceZero(acc, instruction) ==
    LET instance_index == Len(acc.instance_data)
    IN [instance_data |-> Append(acc.instance_data, [world |-> instruction.model_matrix]),
        instance_indices |-> Append(acc.instance_indices, instance_index),
        draw_commands |-> Append(acc.draw_commands,
            DrawIndexedIndirectArgs(instruction.index_count, 1, instruction.index_offset,
                                    instruction.base_vertex, 0))]

\* Variant that swaps the index count and the first index of the command.
PointShadowModel_step_SwappedIndexFields(acc, instruction) ==
    LET instance_index == Len(acc.instance_data)
    IN [instance_data |-> Append(acc.instance_data, [world |-> instruction.model_matrix]),
        instance_indices |-> Append(acc.instance_indices, instance_index),
        draw_commands |-> Append(acc.draw_commands,
            DrawIndexedIndirectArgs(instruction.index_offset, 1, instruction.index_count,
                                    instruction.base_vertex, instance_index))]

PointShadowModel_step(acc, instruction) ==
    LET instance_index == Len(acc.instance_data)
    IN [instance_data |-> Append(acc.instance_data, [world |-> instruction.model_matrix]),
        instance_indices |-> Append(acc.instance_indices, instance_index),
        draw_commands |-> Append(acc.draw_commands,
            DrawIndexedIndirectArgs(instruction.index_count, 1, instruction.index_offset,
                                    instruction.base_vertex, instance_index))]

RECURSIVE PointShadowModel_loop(_, _)
PointShadowModel_loop(list, acc) ==
    IF list = <<>> THEN acc
    ELSE PointShadowModel_loop(Tail(list), PointShadowModel_step(acc, Head(list)))

\* The loop of prepare, tabulated over the instruction lists.
PointShadowModel_batch ==
    [list \in PointShadowModelLists |-> PointShadowModel_loop(list, EmptyShadowBatch)]

PointShadowModelDrawer_new ==
    /\ kind = "point_shadow"
    /\ partially_bound = FALSE
    /\ draw_count = 0
    /\ lookup = EmptyLookup
    /\ bindless_support \in BindlessSupport
    /\ multi_draw_indirect_support \in BOOLEAN
    /\ instance_data_buffer = Buffer_with_capacity(InitialCapacity)
    /\ instance_index_vertex_buffer = Buffer_with_capacity(InitialCapacity)
    /\ command_buffer = Buffer_with_capacity(InitialCapacity)
    /\ bind_group = create_bind_group(Buffer_with_capacity(InitialCapacity), <<>>)
    /\ instance_data = <<>>
    /\ instance_indices = <<>>
    /\ draw_commands = <<>>
    /\ draw_data = NoDrawData

\* The point shadow fields of a behaviour that follows another drawer.
ShadowIdle ==
    /\ bindless_support = "None"
    /\ multi_draw_indirect_support = FALSE
    /\ instance_index_vertex_buffer = Buffer_with_capacity(InitialCapacity)
    /\ command_buffer = Buffer_with_capacity(InitialCapacity)
    /\ instance_indices = <<>>
    /\ draw_commands = <<>>
    /\ draw_data = NoDrawData

PointShadowModelDrawer_prepare(list) ==
    /\ kind = "point_shadow"
    /\ last_op # "panic"
    /\ instructions' = list
    /\ last_op' = "prepare"
    /\ IF Len(list) = 0
       THEN UNCHANGED <<instance_data, instance_indices, draw_commands>>
       ELSE LET batch == PointShadowModel_batch[list]
            IN /\ instance_data' = batch.instance_data
               /\ instance_indices' = batch.instance_indices
               /\ draw_commands' = batch.draw_commands
    /\ pass' = <<>>
    /\ draw_data' = NoDrawData
    /\ UNCHANGED <<kind, partially_bound, draw_count, lookup, instance_data_buffer,
                   bind_group, bindless_support, multi_draw_indirect_support,
                   instance_index_vertex_buffer, command_buffer>>
    /\ UNCHANGED <<blitter_vars, camera_vars, reverse_vars, water_vars>>

PointShadowModelDrawer_upload_NoRebuild ==
    /\ kind = "point_shadow"
    /\ last_op # "panic"
    /\ instance_data_buffer' = Buffer_write(instance_data_buffer, instance_data)
    /\ instance_index_vertex_buffer' = Buffer_write(instance_index_vertex_buffer, instance_indices)
    /\ command_buffer' = Buffer_write(command_buffer, draw_commands)
    /\ last_op' = "upload"
    /\ pass' = <<>>
    /\ draw_data' = NoDrawData
    /\ UNCHANGED <<kind, partially_bound, draw_count, instance_data, lookup, bind_group,
                   instructions, bindless_support, multi_draw_indirect_support,
                   instance_indices, draw_commands>>
    /\ UNCHANGED <<blitter_vars, camera_vars, reverse_vars, water_vars>>

PointShadowModelDrawer_upload ==
    /\ kind = "point_shadow"
    /\ last_op # "panic"
    /\ LET buffer == Buffer_write(instance_data_buffer, instance_data)
       IN /\ instance_data_buffer' = buffer
          /\ bind_group' = IF Buffer_recreated(instance_data_buffer, buffer)
                           THEN create_bind_group(buffer, <<>>)
                           ELSE bind_group
    /\ instance_index_vertex_buffer' = Buffer_write(instance_index_vertex_buffer, instance_indices)
    /\ command_buffer' = Buffer_write(command_buffer, draw_commands)
    /\ last_op' = "upload"
    /\ pass' = <<>>
    /\ draw_data' = NoDrawData
    /\ UNCHANGED <<kind, partially_bound, draw_count, instance_data, lookup,
                   instructions, bindless_support, multi_draw_indirect_support,
                   instance_indices, draw_commands>>
    /\ UNCHANGED <<blitter_vars, camera_vars, reverse_vars, water_vars>>

\* pass.draw_indexed(index_start..index_end, base_vertex, instance..instance + 1)
DrawIndexed(index_start, index_end, base_vertex, instance_offset) ==
    [op |-> "draw_indexed", indices |-> <<index_start, index_end>>,
     base_vertex |-> base_vertex, instances |-> <<instance_offset, instance_offset + 1>>]

\* pass.multi_draw_indexed_indirect(command_buffer, offset, count); the
\* offset is kept in units of one DrawIndexedIndirectArgs.
MultiDrawIndexedIndirect(offset, count) ==
    [op |-> "multi_draw_indexed_indirect", arg |-> offset, count |-> count]

\* pass.set_bind_group(3, get_texture_bind_group(texture_index))
SetTextureBindGroup(texture_index) ==
    [op |-> "set_bind_group", arg |-> 3, texture |-> texture_index]

\* draw_data.instructions[start..end] panics when the range is out of bounds.
SliceInBounds(list, start, end) == start <= end /\ end <= Len(list)

\* Variant whose instance range forgets the start of the slice.
RECURSIVE PointShadowModel_draws_FromZero(_, _, _, _, _)
PointShadowModel_draws_FromZero(list, start, end, index, per_texture) ==
    IF start + index >= end THEN <<>>
    ELSE LET instruction == list[start + index + 1]
             index_start == instruction.index_offset
             index_end == index_start + instruction.index_count
             one == DrawIndexed(index_start, index_end, instruction.base_vertex, index)
         IN (IF per_texture
             THEN <<SetTextureBindGroup(instruction.texture_index), one>>
             ELSE <<one>>)
            \o PointShadowModel_draws_FromZero(list, start, end, index + 1, per_texture)

\* The per-instance loops of PointShadowModelDrawer::draw over
\* draw_data.instructions[start..end].iter().enumerate().
RECURSIVE PointShadowModel_draws(_, _, _, _, _)
PointShadowModel_draws(list, start, end, index, per_texture) ==
    IF start + index >= end THEN <<>>
    ELSE LET instruction == list[start + index + 1]
             index_start == instruction.index_offset
             index_end == index_start + instruction.index_count
             instance_offset == start + index
             one == DrawIndexed(index_start, index_end, instruction.base_vertex,
                                instance_offset)
         IN (IF per_texture
             THEN <<SetTextureBindGroup(instruction.texture_index), one>>
             ELSE <<one>>)
            \o PointShadowModel_draws(list, start, end, index + 1, per_texture)

\* The commands one call of PointShadowModelDrawer::draw records, and
\* whether the call panics after recording them.
PointShadowModel_recorded(data, list, bindless, multi_draw) ==
    LET offset == data.model_offset
        count == data.model_count
        start == offset
        end == start + count
        bound == <<Command("set_pipeline", 0, 0), Command("set_bind_group", 2, 0)>>
        buffers == <<Command("set_index_buffer", 0, 0),
                     Command("set_vertex_buffer", 0, 0),
                     Command("set_vertex_buffer", 1, 0)>>
    IN IF count = 0 THEN [commands |-> <<>>, panic |-> FALSE]
       ELSE IF bindless \in {"Full", "Limited"}
       THEN LET setup == bound \o <<Command("set_bind_group", 3, 0)>> \o buffers
            IN IF multi_draw
               THEN [commands |-> Append(setup, MultiDrawIndexedIndirect(offset, count)),
                     panic |-> FALSE]
               ELSE IF SliceInBounds(list, start, end)
               THEN [commands |-> setup \o PointShadowModel_draws(list, start, end, 0, FALSE),
                     panic |-> FALSE]
               ELSE [commands |-> setup, panic |-> TRUE]
       ELSE LET setup == bound \o buffers
            IN IF SliceInBounds(list, start, end)
               THEN [commands |-> setup \o PointShadowModel_draws(list, start, end, 0, TRUE),
                     panic |-> FALSE]
               ELSE [commands |-> setup, panic |-> TRUE]

PointShadowModelDrawer_draw(data) ==
    /\ kind = "point_shadow"
    /\ last_op # "panic"
    /\ draw_data' = data
    /\ LET recorded == PointShadowModel_recorded(data, instructions, bindless_support,
                                                 multi_draw_indirect_support)
       IN /\ pass' = recorded.commands
          /\ last_op' = IF recorded.panic THEN "panic" ELSE "draw"
    /\ UNCHANGED <<kind, partially_bound, draw_count, instance_data, lookup,
                   instance_data_buffer, bind_group, instructions, bindless_support,
                   multi_draw_indirect_support, instance_indices, draw_commands,
                   instance_index_vertex_buffer, command_buffer>>
    /\ UNCHANGED <<blitter_vars, camera_vars, reverse_vars, water_vars>>

\* --------------------------------------------- post-processing blitter
\* wgpu::TextureFormat values the blitter meets.
FXAA_COLOR_LUMA_TEXTURE_FORMAT == "FxaaColorLuma"
TextureFormats == {"Bgra8UnormSrgb", "Rgba16Float", FXAA_COLOR_LUMA_TEXTURE_FORMAT}
\* crate::graphics::Msaa
Msaa == {"Off", "X2", "X4"}
\* Msaa::multisampling_activated
multisampling_activated(sample) == sample # "Off"

PipelineKey(format, sample, luma_in_alpha, alpha_blending) ==
    [format |-> format, msaa |-> sample, luma_in_alpha |-> luma_in_alpha,
     alpha_blending |-> alpha_blending]
NoKey == <<>>

\* PostProcessingBlitterDrawer::create_pipeline: the pipeline is what it was
\* compiled from.
create_pipeline(format, sample, luma_in_alpha, alpha_blending) ==
    [format |-> format,
     shader |-> IF multisampling_activated(sample) THEN "blitter_msaa" ELSE "blitter",
     SAMPLE_COUNT |-> sample, LUMA_IN_ALPHA |-> luma_in_alpha,
     blend |-> IF alpha_blending THEN "ALPHA_BLENDING" ELSE "None"]

\* Vec::contains
Contains(seq, e) == \E i \in 1..Len(seq) : seq[i] = e

\* Variant that compiles the alpha-blending pipeline for the configured
\* multisampling mode.
Blitter_modes_BlendAtConfiguredMsaa(surface, color, sample) ==
    LET base == <<PipelineKey(surface, "Off", FALSE, FALSE),
                  PipelineKey(color, sample, FALSE, FALSE),
                  PipelineKey(FXAA_COLOR_LUMA_TEXTURE_FORMAT, sample, TRUE, FALSE)>>
        off == PipelineKey(color, "Off", FALSE, FALSE)
        with_off == IF Contains(base, off) THEN base ELSE Append(base, off)
        blend == PipelineKey(color, sample, FALSE, TRUE)
    IN IF Contains(with_off, blend) THEN with_off ELSE Append(with_off, blend)

\* The list of modes PostProcessingBlitterDrawer::new compiles pipelines for.
Blitter_modes(surface, color, sample) ==
    LET base == <<PipelineKey(surface, "Off", FALSE, FALSE),
                  PipelineKey(color, sample, FALSE, FALSE),
                  PipelineKey(FXAA_COLOR_LUMA_TEXTURE_FORMAT, sample, TRUE, FALSE)>>
        off == PipelineKey(color, "Off", FALSE, FALSE)
        with_off == IF Contains(base, off) THEN base ELSE Append(base, off)
        blend == PipelineKey(color, "X4", FALSE, TRUE)
    IN IF Contains(with_off, blend) THEN with_off ELSE Append(with_off, blend)

\* HashMap::insert
HashMap_insert(map, key, value) ==
    [k \in (DOMAIN map) \cup {key} |-> IF k = key THEN value ELSE map[k]]
\* HashMap::new
HashMap_new == [k \in {} |-> NoKey]

RECURSIVE Blitter_fill(_, _)
Blitter_fill(modes, cache) ==
    IF modes = <<>> THEN cache
    ELSE LET mode == Head(modes)
         IN Blitter_fill(Tail(modes),
                HashMap_insert(cache, mode,
                    create_pipeline(mode.format, mode.msaa, mode.luma_in_alpha,
                                    mode.alpha_blending)))

PostProcessingBlitterDrawer_new ==
    /\ pipeline_cache = Blitter_fill(Blitter_modes(surface_texture_format,
                                                   color_texture_format, msaa),
                                     HashMap_new)
    /\ blit_key = NoKey
    /\ blit_pass = <<>>
    /\ blit_status = "new"

\* The blitter of a behaviour that follows another object.
BlitterIdle ==
    /\ surface_texture_format = "Bgra8UnormSrgb"
    /\ color_texture_format = "Rgba16Float"
    /\ msaa = "Off"
    /\ PostProcessingBlitterDrawer_new

\* pass.set_pipeline(pipeline)
SetPipeline(pipeline) == [op |-> "set_pipeline", pipeline |-> pipeline]

\* Variant that compiles the missing pipeline where the source unwraps.
PostProcessingBlitterDrawer_draw_CompileOnMiss(format, sample_count, luma_in_alpha, alpha_blending) ==
    /\ blit_status # "panic"
    /\ LET key == PipelineKey(format, sample_count, luma_in_alpha, alpha_blending)
           cache == IF key \in DOMAIN pipeline_cache THEN pipeline_cache
                    ELSE HashMap_insert(pipeline_cache, key,
                             create_pipeline(format, sample_count, luma_in_alpha,
                                             alpha_blending))
       IN /\ blit_key' = key
          /\ pipeline_cache' = cache
          /\ blit_pass' = <<SetPipeline(cache[key]),
                            Command("set_bind_group", 1, 0),
                            Command("draw", 3, 1)>>
          /\ blit_status' = "draw"
    /\ UNCHANGED <<surface_texture_format, color_texture_format, msaa>>
    /\ UNCHANGED <<drawer_vars, shadow_vars, camera_vars, reverse_vars, water_vars>>

\* Variant that takes the pipeline out of the cache (HashMap::remove).
PostProcessingBlitterDrawer_draw_Remove(format, sample_count, luma_in_alpha, alpha_blending) ==
    /\ blit_status # "panic"
    /\ LET key == PipelineKey(format, sample_count, luma_in_alpha, alpha_blending)
       IN /\ blit_key' = key
          /\ IF key \in DOMAIN pipeline_cache
             THEN /\ blit_pass' = <<SetPipeline(pipeline_cache[key]),
                                    Command("set_bind_group", 1, 0),
                                    Command("draw", 3, 1)>>
                  /\ blit_status' = "draw"
                  /\ pipeline_cache' = [k \in (DOMAIN pipeline_cache) \ {key} |->
                                            pipeline_cache[k]]
             ELSE /\ blit_pass' = <<>>
                  /\ blit_status' = "panic"
                  /\ UNCHANGED pipeline_cache
    /\ UNCHANGED <<surface_texture_format, color_texture_format, msaa>>
    /\ UNCHANGED <<drawer_vars, shadow_vars, camera_vars, reverse_vars, water_vars>>

\* PostProcessingBlitterDrawer::draw; unwrap() of a missing key panics before
\* any command is recorded.
PostProcessingBlitterDrawer_draw(format, sample_count, luma_in_alpha, alpha_blending) ==
    /\ blit_status # "panic"
    /\ LET key == PipelineKey(format, sample_count, luma_in_alpha, alpha_blending)
       IN /\ blit_key' = key
          /\ IF key \in DOMAIN pipeline_cache
             THEN /\ blit_pass' = <<SetPipeline(pipeline_cache[key]),
                                    Command("set_bind_group", 1, 0),
                                    Command("draw", 3, 1)>>
                  /\ blit_status' = "draw"
             ELSE /\ blit_pass' = <<>>
                  /\ blit_status' = "panic"
    /\ UNCHANGED <<surface_texture_format, color_texture_format, msaa, pipeline_cache>>
    /\ UNCHANGED <<drawer_vars, shadow_vars, camera_vars, reverse_vars, water_vars>>

\* ------------------------------------------------------ exact arithmetic
\* A rational is <<numerator, denominator>> in lowest terms, denominator > 0.
Abs(n) == IF n < 0 THEN -n ELSE n
Sgn(n) == IF n < 0 THEN -1 ELSE IF n > 0 THEN 1 ELSE 0

RECURSIVE GCD(_, _)
GCD(a, b) == IF b = 0 THEN a ELSE GCD(b, a % b)

Rat(n, d) ==
    LET g == GCD(Abs(n), Abs(d))
        s == IF d < 0 THEN -1 ELSE 1
    IN <<(s * n) \div g, (s * d) \div g>>

R(n) == <<n, 1>>
RAdd(a, b) == Rat(a[1] * b[2] + b[1] * a[2], a[2] * b[2])
RSub(a, b) == Rat(a[1] * b[2] - b[1] * a[2], a[2] * b[2])
RMul(a, b) == Rat(a[1] * b[1], a[2] * b[2])
RDiv(a, b) == Rat(a[1] * b[2], a[2] * b[1])
RNeg(a) == <<-a[1], a[2]>>
RLt(a, b) == a[1] * b[2] < b[1] * a[2]
RAbs(a) == <<Abs(a[1]), a[2]>>

\* Absent value of an optional vector.
None == <<>>

Vector2(x, y) == [x |-> x, y |-> y]
Vector4(x, y, z, w) == [x |-> x, y |-> y, z |-> z, w |-> w]

\* Matrix4::from_cols: a matrix is the tuple of its four columns.
Matrix4_from_cols(c0, c1, c2, c3) == <<c0, c1, c2, c3>>

\* Matrix4 * Vector4
Matrix4_mul(m, v) ==
    LET row(f(_)) == RAdd(RAdd(RMul(f(m[1]), v.x), RMul(f(m[2]), v.y)),
                          RAdd(RMul(f(m[3]), v.z), RMul(f(m[4]), v.w)))
        X(c) == c.x
        Y(c) == c.y
        Z(c) == c.z
        W(c) == c.w
    IN Vector4(row(X), row(Y), row(Z), row(W))

\* ----------------------------------------------------------------- camera
\* pub(super) const NEAR_PLANE: f32 = 1.0;
NEAR_PLANE == 1

\* Largest view-space depth of a projected point.
MaxZ == 5
\* Largest absolute coordinate of the camera position.
MaxCoord == 2

\* Camera::clip_to_screen_space
clip_to_screen_space_NoDivide(clip) ==
    Vector2(RMul(RAdd(clip.x, R(1)), <<1, 2>>), RMul(RSub(R(1), clip.y), <<1, 2>>))

clip_to_screen_space_NoOffset(clip) ==
    LET x == RDiv(clip.x, clip.w)
        y == RDiv(clip.y, clip.w)
    IN Vector2(RMul(x, <<1, 2>>), RMul(RSub(R(1), y), <<1, 2>>))

clip_to_screen_space(clip) ==
    LET x == RDiv(clip.x, clip.w)
        y == RDiv(clip.y, clip.w)
    IN Vector2(RMul(RAdd(x, R(1)), <<1, 2>>), RMul(RSub(R(1), y), <<1, 2>>))

\* Camera::screen_to_clip_space
screen_to_clip_space_NoFlip(screen) ==
    LET x == RSub(RMul(screen.x, R(2)), R(1))
        y == RSub(RMul(screen.y, R(2)), R(1))
    IN Vector4(x, y, R(0), R(1))

screen_to_clip_space(screen) ==
    LET x == RSub(RMul(screen.x, R(2)), R(1))
        y == RNeg(RSub(RMul(screen.y, R(2)), R(1)))
    IN Vector4(x, y, R(0), R(1))

\* orthographic_lh
orthographic_lh_NoTranslation(left, right, bottom, top, near, far) ==
    LET width == RDiv(R(1), RSub(right, left))
        height == RDiv(R(1), RSub(top, bottom))
        depth == RDiv(R(1), RSub(far, near))
    IN Matrix4_from_cols(
           Vector4(RAdd(width, width), R(0), R(0), R(0)),
           Vector4(R(0), RAdd(height, height), R(0), R(0)),
           Vector4(R(0), R(0), depth, R(0)),
           Vector4(R(0), R(0), RMul(RNeg(depth), near), R(1)))

orthographic_lh_Reversed(left, right, bottom, top, near, far) ==
    LET width == RDiv(R(1), RSub(right, left))
        height == RDiv(R(1), RSub(top, bottom))
        depth == RDiv(R(1), RSub(near, far))
    IN Matrix4_from_cols(
           Vector4(RAdd(width, width), R(0), R(0), R(0)),
           Vector4(R(0), RAdd(height, height), R(0), R(0)),
           Vector4(R(0), R(0), depth, R(0)),
           Vector4(RMul(RNeg(RAdd(left, right)), width),
                   RMul(RNeg(RAdd(top, bottom)), height),
                   RMul(RNeg(depth), far),
                   R(1)))

orthographic_lh(left, right, bottom, top, near, far) ==
    LET width == RDiv(R(1), RSub(right, left))
        height == RDiv(R(1), RSub(top, bottom))
        depth == RDiv(R(1), RSub(far, near))
    IN Matrix4_from_cols(
           Vector4(RAdd(width, width), R(0), R(0), R(0)),
           Vector4(R(0), RAdd(height, height), R(0), R(0)),
           Vector4(R(0), R(0), depth, R(0)),
           Vector4(RMul(RNeg(RAdd(left, right)), width),
                   RMul(RNeg(RAdd(top, bottom)), height),
                   RMul(RNeg(depth), near),
                   R(1)))

\* perspective_reverse_lh; `tangent` is the value of (vertical_fov / 2).tan().
perspective_reverse_lh_ForwardZ(tangent, aspect_ratio) ==
    LET height == RDiv(R(1), tangent)
        width == RDiv(height, aspect_ratio)
    IN Matrix4_from_cols(
           Vector4(width, R(0), R(0), R(0)),
           Vector4(R(0), height, R(0), R(0)),
           Vector4(R(0), R(0), R(1), R(1)),
           Vector4(R(0), R(0), RNeg(R(NEAR_PLANE)), R(0)))

perspective_reverse_lh(tangent, aspect_ratio) ==
    LET height == RDiv(R(1), tangent)
        width == RDiv(height, aspect_ratio)
    IN Matrix4_from_cols(
           Vector4(width, R(0), R(0), R(0)),
           Vector4(R(0), height, R(0), R(0)),
           Vector4(R(0), R(0), R(0), R(1)),
           Vector4(R(0), R(0), R(NEAR_PLANE), R(0)))

\* A number n / sqrt(m2) is kept as its sign and its square.
Surd(n, m2) == [sign |-> Sgn(n), sq |-> Rat(n * n, m2)]

\* Result of a normalize() of the zero vector.
NaN == [sign |-> 0, sq |-> <<-1, 1>>]

\* Camera::view_direction: (focus - position).normalize()
view_direction_of(position, focus) ==
    LET dx == focus[1] - position[1]
        dy == focus[2] - position[2]
        dz == focus[3] - position[3]
        magnitude2 == dx * dx + dy * dy + dz * dz
    IN IF magnitude2 = 0 THEN [x |-> NaN, y |-> NaN, z |-> NaN]
       ELSE [x |-> Surd(dx, magnitude2), y |-> Surd(dy, magnitude2), z |-> Surd(dz, magnitude2)]

\* q < tan^2(22.5 deg) = 3 - 2 sqrt 2, for a rational q >= 0
BelowTan2_22_5(q) ==
    LET e == RSub(R(3), q) IN RLt(R(0), e) /\ RLt(R(8), RMul(e, e))

\* q > tan^2(67.5 deg) = 3 + 2 sqrt 2, for a rational q >= 0
AboveTan2_67_5(q) ==
    LET e == RSub(q, R(3)) IN RLt(R(0), e) /\ RLt(R(8), RMul(e, e))

\* ((f32::atan2(a, b) * (180 / PI) + 360.0 - 22.5) / 45.0) as usize
\* The angle atan2(a, b) lies in one of the 45 degree wide sectors whose
\* borders are the odd multiples of 22.5 degrees.
atan2_sector(a, b) ==
    IF b.sign = 0
    THEN (IF a.sign > 0 THEN 9 ELSE IF a.sign < 0 THEN 5 ELSE 7)
    ELSE LET q == RDiv(a.sq, b.sq)
             low == BelowTan2_22_5(q)
             high == AboveTan2_67_5(q)
         IN IF b.sign > 0
            THEN (IF low THEN 7
                  ELSE IF a.sign > 0 THEN (IF high THEN 9 ELSE 8)
                  ELSE (IF high THEN 5 ELSE 6))
            ELSE (IF a.sign >= 0
                  THEN (IF low THEN 11 ELSE IF high THEN 9 ELSE 10)
                  ELSE (IF low THEN 3 ELSE IF high THEN 5 ELSE 4))

\* !k & 7
not_and_7(k) == 7 - (k % 8)

\* fn direction(vector: Vector2<f32>) -> usize
direction(vector) ==
    LET magnitude2 == RAdd(vector.x.sq, vector.y.sq)
        is_nan == vector.x = NaN \/ magnitude2 = R(0)
        normalized_x == [sign |-> vector.x.sign, sq |-> RDiv(vector.x.sq, magnitude2)]
        \* a NaN angle casts to 0
        k == IF is_nan THEN 0 ELSE atan2_sector(normalized_x, vector.y)
    IN not_and_7(k)

\* Camera::camera_direction
camera_direction_of(position, focus) ==
    LET view_direction == view_direction_of(position, focus)
    IN direction([x |-> view_direction.x, y |-> view_direction.z])

NoOctant == -1
NoProjection ==
    [type |-> "none", left |-> R(0), right |-> R(0), bottom |-> R(0), top |-> R(0),
     near |-> R(0), far |-> R(0), matrix |-> None]

Origin == <<0, 0, 0>>
Coords == (-MaxCoord)..MaxCoord
CameraPositions == {<<x, y, z>> : x \in Coords, y \in Coords, z \in Coords} \ {Origin}
\* Camera positions used while converting and projecting.
ViewCameras == {<<0, 1, -2>>, <<2, 2, 1>>}

ClipX == {R(-1), <<-3, 10>>, R(0), <<1, 2>>, R(1)}
ClipY == {<<-3, 10>>, R(0), R(1)}
ClipZ == {R(0), R(1)}
ClipW == {R(1), R(2), R(-2)}
ClipInputs == {Vector4(x, y, z, w) : x \in ClipX, y \in ClipY, z \in ClipZ, w \in ClipW}

ViewZ == NEAR_PLANE..MaxZ
ViewPoints == {Vector4(R(x), R(y), R(z), R(1)) : x \in {-2, 0, 2}, y \in {-1, 0, 1}, z \in ViewZ}
Tangents == {R(1), <<1, 2>>}
AspectRatios == {R(1), <<4, 3>>}
\* near < far
DepthRanges == {<<R(1), R(5)>>, <<R(2), R(4)>>}
\* <<left, right, bottom, top>> of the orthographic boxes: one centred on the
\* view axis, one off centre.
OrthographicBoxes == {<<R(-2), R(2), R(-1), R(1)>>, <<R(0), R(4), R(-1), R(3)>>}

CameraNew ==
    /\ camera_position = <<0, 1, -2>>
    /\ focus_point = Origin
    /\ projection = NoProjection
    /\ view_position = None
    /\ clip_space_position = None
    /\ screen_space_position = None
    /\ converted = None
    /\ octant = NoOctant

\* The game moves the camera.
MoveCamera(position) ==
    /\ camera_position' = position
    /\ octant' = NoOctant
    /\ UNCHANGED <<focus_point, projection, view_position, clip_space_position,
                   screen_space_position, converted>>
    /\ UNCHANGED <<drawer_vars, shadow_vars, blitter_vars, reverse_vars, water_vars>>

\* generate_view_projection of a perspective camera
GeneratePerspective(tangent, aspect_ratio) ==
    /\ projection' = [NoProjection EXCEPT
                          !.type = "perspective", !.near = R(NEAR_PLANE),
                          !.matrix = perspective_reverse_lh(tangent, aspect_ratio)]
    /\ view_position' = None
    /\ clip_space_position' = None
    /\ screen_space_position' = None
    /\ converted' = None
    /\ UNCHANGED <<camera_position, focus_point, octant>>
    /\ UNCHANGED <<drawer_vars, shadow_vars, blitter_vars, reverse_vars, water_vars>>

\* generate_view_projection of an orthographic camera
GenerateOrthographic(left, right, bottom, top, near, far) ==
    /\ projection' = [type |-> "orthographic", left |-> left, right |-> right,
                      bottom |-> bottom, top |-> top, near |-> near, far |-> far,
                      matrix |-> orthographic_lh(left, right, bottom, top, near, far)]
    /\ view_position' = None
    /\ clip_space_position' = None
    /\ screen_space_position' = None
    /\ converted' = None
    /\ UNCHANGED <<camera_position, focus_point, octant>>
    /\ UNCHANGED <<drawer_vars, shadow_vars, blitter_vars, reverse_vars, water_vars>>

\* projection_matrix * point
Project(point) ==
    /\ projection.type # "none"
    /\ view_position' = point
    /\ clip_space_position' = Matrix4_mul(projection.matrix, point)
    /\ screen_space_position' = None
    /\ converted' = None
    /\ UNCHANGED <<camera_position, focus_point, projection, octant>>
    /\ UNCHANGED <<drawer_vars, shadow_vars, blitter_vars, reverse_vars, water_vars>>

\* camera.clip_to_screen_space(clip)
ClipToScreenSpace(clip) ==
    /\ view_position' = None
    /\ clip_space_position' = clip
    /\ screen_space_position' = clip_to_screen_space(clip)
    /\ converted' = None
    /\ UNCHANGED <<camera_position, focus_point, projection, octant>>
    /\ UNCHANGED <<drawer_vars, shadow_vars, blitter_vars, reverse_vars, water_vars>>

\* camera.clip_to_screen_space applied to the projected point
ProjectedToScreenSpace ==
    /\ view_position # None
    /\ screen_space_position = None
    /\ screen_space_position' = clip_to_screen_space(clip_space_position)
    /\ UNCHANGED <<camera_position, focus_point, projection, view_position,
                   clip_space_position, converted, octant>>
    /\ UNCHANGED <<drawer_vars, shadow_vars, blitter_vars, reverse_vars, water_vars>>

\* camera.screen_to_clip_space(screen_space)
ScreenToClipSpace ==
    /\ screen_space_position # None
    /\ converted' = screen_to_clip_space(screen_space_position)
    /\ UNCHANGED <<camera_position, focus_point, projection, view_position,
                   clip_space_position, screen_space_position, octant>>
    /\ UNCHANGED <<drawer_vars, shadow_vars, blitter_vars, reverse_vars, water_vars>>

\* camera.camera_direction()
CameraDirection ==
    /\ octant' = camera_direction_of(camera_position, focus_point)
    /\ UNCHANGED <<camera_position, focus_point, projection, view_position,
                   clip_space_position, screen_space_position, converted>>
    /\ UNCHANGED <<drawer_vars, shadow_vars, blitter_vars, reverse_vars, water_vars>>

\* ------------------------------------------- the reverse conversion in f32
\* An f32 value v is kept as the integer v * 2^27: every value of the reverse
\* conversion of the screen positions below is a multiple of 2^-27 smaller
\* than 8, and is rounded as f32 rounds (24 significant bits, to nearest, ties
\* to even).
Quantum == 2^27
Significand == 2^24

F32_ZERO == 0
F32_HALF == Quantum \div 2
F32_ONE == Quantum
F32_TWO == 2 * Quantum

\* round to nearest representable f32, ties to even
F32_round(n) ==
    LET a == Abs(n)
        k == CHOOSE e \in 0..6 :
                 /\ a < Significand * 2^e
                 /\ e = 0 \/ a >= Significand * 2^(e - 1)
        unit == 2^k
        q == a \div unit
        rem == a % unit
        up == 2 * rem > unit \/ (2 * rem = unit /\ q % 2 = 1)
    IN Sgn(n) * (IF up THEN q + 1 ELSE q) * unit

F32_add(a, b) == F32_round(a + b)
F32_sub(a, b) == F32_round(a - b)
F32_neg(a) == 0 - a
\* The products of the conversions are by 2.0 and by 0.5.
F32_mul(a, b) ==
    CASE b = F32_TWO -> F32_round(2 * a)
      [] b = F32_HALF /\ a % 2 = 0 -> F32_round(a \div 2)
\* The quotient of the reverse round trip is by w = 1.0.
F32_div(a, b) ==
    CASE b = F32_ONE -> a

\* Camera::screen_to_clip_space in f32
screen_to_clip_space_f32_NoFlip(screen) ==
    LET x == F32_sub(F32_mul(screen.x, F32_TWO), F32_ONE)
        y == F32_sub(F32_mul(screen.y, F32_TWO), F32_ONE)
    IN Vector4(x, y, F32_ZERO, F32_ONE)

screen_to_clip_space_f32(screen) ==
    LET x == F32_sub(F32_mul(screen.x, F32_TWO), F32_ONE)
        y == F32_neg(F32_sub(F32_mul(screen.y, F32_TWO), F32_ONE))
    IN Vector4(x, y, F32_ZERO, F32_ONE)

\* Camera::clip_to_screen_space in f32
clip_to_screen_space_f32(clip) ==
    LET x == F32_div(clip.x, clip.w)
        y == F32_div(clip.y, clip.w)
    IN Vector2(F32_mul(F32_add(x, F32_ONE), F32_HALF),
               F32_mul(F32_sub(F32_ONE, y), F32_HALF))

\* f32 screen coordinates: 0, 2^-27, 0.1, 0.2, 0.25, 0.3, 0.5, 0.75, 1, and
\* -0.1 and 1.5 outside the screen.
ScreenCoordinates ==
    {0, 1, 13421773, 26843546, Quantum \div 4, 40265320, Quantum \div 2,
     3 * (Quantum \div 4), Quantum, 0 - 13421773, 3 * (Quantum \div 2)}
ScreenPositions == {Vector2(x, y) : x \in ScreenCoordinates, y \in ScreenCoordinates}

ReverseIdle ==
    /\ f32_screen_space_position = None
    /\ f32_clip_space_position = None
    /\ f32_round_trip = None

\* camera.screen_to_clip_space(screen)
ScreenToClipSpaceF32(screen) ==
    /\ f32_screen_space_position' = screen
    /\ f32_clip_space_position' = screen_to_clip_space_f32(screen)
    /\ f32_round_trip' = None
    /\ UNCHANGED <<drawer_vars, shadow_vars, blitter_vars, camera_vars, water_vars>>

\* camera.clip_to_screen_space applied to that result
ClipToScreenSpaceF32 ==
    /\ f32_clip_space_position # None
    /\ f32_round_trip = None
    /\ f32_round_trip' = clip_to_screen_space_f32(f32_clip_space_position)
    /\ UNCHANGED <<f32_screen_space_position, f32_clip_space_position>>
    /\ UNCHANGED <<drawer_vars, shadow_vars, blitter_vars, camera_vars, water_vars>>

\* ------------------------------------------------------------- water plane
\* Longest list of ground tiles.
MaxTiles == 2
\* Largest width of the ground grid.
MaxWidth == 2

\* const GROUND_TILE_SIZE: f32
GROUND_TILE_SIZE == 10

\* ragnarok_formats::map::GroundTile: the four corner heights.
GroundTile(southwest, southeast, northwest, northeast) ==
    [southwest_corner_height |-> southwest, southeast_corner_height |-> southeast,
     northwest_corner_height |-> northwest, northeast_corner_height |-> northeast]

\* Flat tiles at two heights, and the same tiles with one corner pushed down
\* (heights grow downwards: a height h lies at -h).
FlatHeights == {-2, 0}
GroundTiles ==
    UNION {{GroundTile(h, h, h, h), GroundTile(1, h, h, h), GroundTile(h, 1, h, h),
            GroundTile(h, h, 1, h), GroundTile(h, h, h, 1)} : h \in FlatHeights}
GroundTileLists == SeqsUpTo(GroundTiles, MaxTiles)

\* Option<T>: <<>> is None, <<v>> is Some(v).
Some(v) == <<v>>
unwrap_or(option, default) == IF option = <<>> THEN default ELSE option[1]

\* Option<&WaterSettings>
WaterSettings ==
    {None} \cup [water_level : {<<>>, Some(-1), Some(1)},
                 wave_height : {<<>>, Some(0), Some(2)}]

f32_min(a, b) == IF b < a THEN b ELSE a

\* GroundTileExt::lowest_point
lowest_point(tile) ==
    f32_min(f32_min(f32_min(0 - tile.southeast_corner_height,
                            0 - tile.southwest_corner_height),
                    0 - tile.northeast_corner_height),
            0 - tile.northwest_corner_height)

Point3(x, y, z) == <<x, y, z>>

\* WaterVertex::new(position, grid_u, grid_v)
WaterVertex_new(position, grid_u, grid_v) ==
    [position |-> position, grid_u |-> grid_u, grid_v |-> grid_v]

\* generate_vertices: the tile at `index` (from 0), filtered and mapped.
\* acc holds the vertices pushed and the indices collected so far.
generate_vertices_step_TileIndex(acc, index, current_tile, grid_width, water_level, max_water_height) ==
    IF ~(lowest_point(current_tile) < max_water_height) THEN acc
    ELSE LET grid_u == index % grid_width
             grid_v == index \div grid_width
             south_west == Point3(grid_u * GROUND_TILE_SIZE, water_level,
                                  grid_v * GROUND_TILE_SIZE)
             south_east == Point3((grid_u + 1) * GROUND_TILE_SIZE, water_level,
                                  grid_v * GROUND_TILE_SIZE)
             north_west == Point3(grid_u * GROUND_TILE_SIZE, water_level,
                                  (grid_v + 1) * GROUND_TILE_SIZE)
             north_east == Point3((grid_u + 1) * GROUND_TILE_SIZE, water_level,
                                  (grid_v + 1) * GROUND_TILE_SIZE)
             first == 4 * index
         IN [vertices |-> acc.vertices \o
                          <<WaterVertex_new(south_west, grid_u, grid_v),
                            WaterVertex_new(south_east, grid_u, grid_v),
                            WaterVertex_new(north_west, grid_u, grid_v),
                            WaterVertex_new(north_east, grid_u, grid_v)>>,
             indices |-> acc.indices \o
                         <<first, first + 1, first + 2, first + 1, first + 3, first + 2>>]

generate_vertices_step_Inclusive(acc, index, current_tile, grid_width, water_level, max_water_height) ==
    IF ~(lowest_point(current_tile) <= max_water_height) THEN acc
    ELSE LET grid_u == index % grid_width
             grid_v == index \div grid_width
             south_west == Point3(grid_u * GROUND_TILE_SIZE, water_level,
                                  grid_v * GROUND_TILE_SIZE)
             south_east == Point3((grid_u + 1) * GROUND_TILE_SIZE, water_level,
                                  grid_v * GROUND_TILE_SIZE)
             north_west == Point3(grid_u * GROUND_TILE_SIZE, water_level,
                                  (grid_v + 1) * GROUND_TILE_SIZE)
             north_east == Point3((grid_u + 1) * GROUND_TILE_SIZE, water_level,
                                  (grid_v + 1) * GROUND_TILE_SIZE)
             first == Len(acc.vertices)
         IN [vertices |-> acc.vertices \o
                          <<WaterVertex_new(south_west, grid_u, grid_v),
                            WaterVertex_new(south_east, grid_u, grid_v),
                            WaterVertex_new(north_west, grid_u, grid_v),
                            WaterVertex_new(north_east, grid_u, grid_v)>>,
             indices |-> acc.indices \o
                         <<first, first + 1, first + 2, first + 1, first + 3, first + 2>>]

generate_vertices_step(acc, index, current_tile, grid_width, water_level, max_water_height) ==
    IF ~(lowest_point(current_tile) < max_water_height) THEN acc
    ELSE LET grid_u == index % grid_width
             grid_v == index \div grid_width
             south_west == Point3(grid_u * GROUND_TILE_SIZE, water_level,
                                  grid_v * GROUND_TILE_SIZE)
             south_east == Point3((grid_u + 1) * GROUND_TILE_SIZE, water_level,
                                  grid_v * GROUND_TILE_SIZE)
             north_west == Point3(grid_u * GROUND_TILE_SIZE, water_level,
                                  (grid_v + 1) * GROUND_TILE_SIZE)
             north_east == Point3((grid_u + 1) * GROUND_TILE_SIZE, water_level,
                                  (grid_v + 1) * GROUND_TILE_SIZE)
             \* let index = vertices.len() as u32;
             first == Len(acc.vertices)
         IN [vertices |-> acc.vertices \o
                          <<WaterVertex_new(south_west, grid_u, grid_v),
                            WaterVertex_new(south_east, grid_u, grid_v),
                            WaterVertex_new(north_west, grid_u, grid_v),
                            WaterVertex_new(north_east, grid_u, grid_v)>>,
             indices |-> acc.indices \o
                         <<first, first + 1, first + 2, first + 1, first + 3, first + 2>>]

RECURSIVE generate_vertices_from(_, _, _, _, _, _)
generate_vertices_from(tiles, index, grid_width, water_level, max_water_height, acc) ==
    IF index >= Len(tiles) THEN acc
    ELSE generate_vertices_from(
             tiles, index + 1, grid_width, water_level, max_water_height,
             generate_vertices_step(acc, index, tiles[index + 1], grid_width,
                                    water_level, max_water_height))

\* fn generate_vertices(ground_tiles, width, water_level, max_water_height)
generate_vertices(tiles, grid_width, water_level, max_water_height) ==
    generate_vertices_from(tiles, 0, grid_width, water_level, max_water_height,
                           [vertices |-> <<>>, indices |-> <<>>])

\* let water_level = -water_settings.water_level.unwrap_or(0.0);
water_level_of(settings) == 0 - unwrap_or(settings.water_level, 0)
\* let wave_height = water_settings.wave_height.unwrap_or(1.0);
wave_height_of(settings) == unwrap_or(settings.wave_height, 1)
\* let max_water_height = water_level + wave_height;
max_water_height_of(settings) == water_level_of(settings) + wave_height_of(settings)

WaterIdle ==
    /\ ground_tiles = <<>>
    /\ ground_width = 1
    /\ water_settings = None
    /\ water_vertices = <<>>
    /\ water_indices = <<>>
    /\ water_plane = "unloaded"

\* A map is read: its ground data and its water settings.
MapLoaded ==
    /\ ground_tiles \in GroundTileLists
    /\ ground_width \in 1..MaxWidth
    /\ water_settings \in WaterSettings
    /\ water_vertices = <<>>
    /\ water_indices = <<>>
    /\ water_plane = "unloaded"

\* generate_water_plane(.., ground_data, water_settings)
generate_water_plane ==
    /\ water_plane = "unloaded"
    /\ IF water_settings = None
       THEN /\ water_plane' = "none"
            /\ UNCHANGED <<water_vertices, water_indices>>
       ELSE LET generated == generate_vertices(ground_tiles, ground_width,
                                               water_level_of(water_settings),
                                               max_water_height_of(water_settings))
            IN /\ water_vertices' = generated.vertices
               /\ water_indices' = generated.indices
               /\ water_plane' = IF generated.vertices = <<>> THEN "none" ELSE "some"
    /\ UNCHANGED <<ground_tiles, ground_width, water_settings>>
    /\ UNCHANGED <<drawer_vars, shadow_vars, blitter_vars, camera_vars, reverse_vars>>

\* ---------------------------------------------------------- specification
\* The drawers: any order of prepare, upload and draw on one drawer.
Init ==
    /\ kind \in {"entity", "picker", "aabb"}
    /\ partially_bound \in BOOLEAN
    /\ \/ GeometryEntityDrawer_new
       \/ PickerEntityDrawer_new
       \/ ScreenAabbDrawer_new
    /\ instructions = <<>>
    /\ pass = <<>>
    /\ last_op = "new"
    /\ ShadowIdle
    /\ BlitterIdle
    /\ CameraNew
    /\ ReverseIdle
    /\ WaterIdle

Next ==
    \/ kind = "entity" /\ \E list \in EntityLists : GeometryEntityDrawer_prepare(list)
    \/ GeometryEntityDrawer_upload
    \/ GeometryEntityDrawer_draw
    \/ kind = "picker" /\ \E list \in EntityLists : PickerEntityDrawer_prepare(list)
    \/ PickerEntityDrawer_upload
    \/ PickerEntityDrawer_draw
    \/ kind = "aabb" /\ \E list \in AabbLists : ScreenAabbDrawer_prepare(list)
    \/ ScreenAabbDrawer_upload
    \/ ScreenAabbDrawer_draw

Spec == Init /\ [][Next]_vars

DrawerIdle ==
    /\ kind = "entity"
    /\ partially_bound = TRUE
    /\ GeometryEntityDrawer_new
    /\ instructions = <<>>
    /\ pass = <<>>
    /\ last_op = "new"
    /\ ShadowIdle

\* The camera: projections, projected points and space conversions.
InitCamera ==
    /\ DrawerIdle
    /\ BlitterIdle
    /\ CameraNew
    /\ ReverseIdle
    /\ WaterIdle

NextCamera ==
    \/ \E position \in ViewCameras : MoveCamera(position)
    \/ \E tangent \in Tangents, aspect_ratio \in AspectRatios :
          GeneratePerspective(tangent, aspect_ratio)
    \/ \E box \in OrthographicBoxes, range \in DepthRanges :
          GenerateOrthographic(box[1], box[2], box[3], box[4], range[1], range[2])
    \/ \E point \in ViewPoints : Project(point)
    \/ \E clip \in ClipInputs : ClipToScreenSpace(clip)
    \/ ProjectedToScreenSpace
    \/ ScreenToClipSpace

SpecCamera == InitCamera /\ [][NextCamera]_vars

\* The camera direction: the camera moves and its octant is queried.
InitDirection ==
    /\ DrawerIdle
    /\ BlitterIdle
    /\ CameraNew
    /\ ReverseIdle
    /\ WaterIdle

NextDirection ==
    \/ \E position \in CameraPositions : MoveCamera(position)
    \/ CameraDirection

SpecDirection == InitDirection /\ [][NextDirection]_vars

\* The point shadow model drawer: any order of prepare, upload and draw, with
\* any draw data.
InitPointShadow ==
    /\ PointShadowModelDrawer_new
    /\ instructions = <<>>
    /\ pass = <<>>
    /\ last_op = "new"
    /\ BlitterIdle
    /\ CameraNew
    /\ ReverseIdle
    /\ WaterIdle

NextPointShadow ==
    \/ \E list \in PointShadowModelLists : PointShadowModelDrawer_prepare(list)
    \/ PointShadowModelDrawer_upload
    \/ \E data \in DrawData : PointShadowModelDrawer_draw(data)

SpecPointShadow == InitPointShadow /\ [][NextPointShadow]_vars

\* Every batcher kind: the drawer is one of the four.
InitBatchers == Init \/ InitPointShadow

NextBatchers == Next \/ NextPointShadow

SpecBatchers == InitBatchers /\ [][NextBatchers]_vars

\* The blitter: constructed for some surface format, colour format and
\* multisampling mode, then asked to draw with any draw data.
InitBlitter ==
    /\ DrawerIdle
    /\ CameraNew
    /\ ReverseIdle
    /\ WaterIdle
    /\ surface_texture_format \in TextureFormats
    /\ color_texture_format \in TextureFormats
    /\ msaa \in Msaa
    /\ PostProcessingBlitterDrawer_new

NextBlitter ==
    \E format \in TextureFormats, sample_count \in Msaa,
       luma_in_alpha \in BOOLEAN, alpha_blending \in BOOLEAN :
        PostProcessingBlitterDrawer_draw(format, sample_count, luma_in_alpha, alpha_blending)

SpecBlitter == InitBlitter /\ [][NextBlitter]_vars

\* The reverse conversion: a screen position is converted to clip space and
\* back, in f32 arithmetic.
InitReverse ==
    /\ DrawerIdle
    /\ BlitterIdle
    /\ CameraNew
    /\ ReverseIdle
    /\ WaterIdle

NextReverse ==
    \/ \E screen \in ScreenPositions : ScreenToClipSpaceF32(screen)
    \/ ClipToScreenSpaceF32

SpecReverse == InitReverse /\ [][NextReverse]_vars

\* The map loader: a map is read and its water plane generated.
InitWater ==
    /\ DrawerIdle
    /\ BlitterIdle
    /\ CameraNew
    /\ ReverseIdle
    /\ MapLoaded

NextWater == generate_water_plane

SpecWater == InitWater /\ [][NextWater]_vars

\* ------------------------------------------------------------- properties
\* Number of instructions of `list` a drawer of kind `k` is to draw: the
\* picker never draws instruction 0 (the local player).
DrawableCount(k, list) ==
    IF k = "picker" THEN (IF Len(list) = 0 THEN 0 ELSE Len(list) - 1) ELSE Len(list)

\* The instructions of the latest prepare that the drawer processes.
Processed ==
    IF kind = "picker" THEN (IF instructions = <<>> THEN <<>> ELSE Tail(instructions))
    ELSE instructions

Textured == kind \in {"entity", "picker"}

\* The distinct texture handles of a list, and the number of distinct
\* handles that appear before position i (the first-appearance rank).
HandlesOf(list) == {list[i].texture : i \in 1..Len(list)}
FirstAppearanceRank(list, i) == Cardinality({list[j].texture : j \in 1..(i - 1)})
LookupKeys == {t \in Textures : lookup[t] # NoSlot}

\* C1: after a prepare whose list yields no drawable instruction, draw_count
\* is 0 and every draw call that follows records no GPU command at all,
\* whatever earlier frames prepared.
C1_EmptyPrepareDrawsNothing ==
    DrawableCount(kind, instructions) = 0 =>
        /\ draw_count = 0
        /\ last_op = "draw" => pass = <<>>

\* A draw after an empty prepare that followed a non-empty frame.
C1_Witness ==
    /\ last_op = "draw"
    /\ DrawableCount(kind, instructions) = 0
    /\ instance_data # <<>>
    /\ pass = <<>>

\* C2: on a backend with partially-bound arrays, after a prepare of N > 0
\* instructions with K distinct handles the slot array has exactly K entries,
\* the handles get slots 0..K-1 in order of first appearance, the fallback
\* is not pushed and every texture_index is in [0, K).
C2_SequentialSlots ==
    (Textured /\ partially_bound /\ Len(Processed) > 0) =>
        LET K == Cardinality(HandlesOf(Processed))
        IN /\ Len(bind_group.texture_views) = K
           /\ Len(instance_data) = Len(Processed)
           /\ \A i \in 1..Len(Processed) :
                /\ instance_data[i].texture_index \in 0..(K - 1)
                /\ \/ instance_data[i].texture_index = FirstAppearanceRank(Processed, i)
                   \/ \E j \in 1..(i - 1) :
                        /\ Processed[j].texture = Processed[i].texture
                        /\ instance_data[j].texture_index = instance_data[i].texture_index
           /\ \A s \in 1..Len(bind_group.texture_views) :
                bind_group.texture_views[s] # SolidPixel

\* C3: after a non-empty prepare two instance records carry the same
\* texture_index exactly when their instructions have the same handle; the
\* keys of the dedup table are the handles of the processed instructions and
\* no two handles share a slot.
C3_DedupInjective ==
    (Textured /\ Len(Processed) > 0) =>
        /\ Len(instance_data) = Len(Processed)
        /\ \A i, j \in 1..Len(Processed) :
             (instance_data[i].texture_index = instance_data[j].texture_index)
                <=> (Processed[i].texture = Processed[j].texture)
        /\ LookupKeys = HandlesOf(Processed)
        /\ \A i \in 1..Len(Processed) :
             lookup[Processed[i].texture] = instance_data[i].texture_index
        /\ \A t1, t2 \in LookupKeys : t1 # t2 => lookup[t1] # lookup[t2]

\* A prepared list that repeats one handle and also uses another one.
C3_Witness ==
    /\ Textured
    /\ last_op = "prepare"
    /\ Len(Processed) > 0
    /\ \E i, j \in 1..Len(Processed) :
         i # j /\ Processed[i].texture = Processed[j].texture
    /\ Cardinality(HandlesOf(Processed)) > 1
    /\ Len(instance_data) = Len(Processed)

\* C4: the picker's prepare of N instructions sets draw_count to N-1 when
\* N >= 1 and to 0 when N is 0 or 1; when N >= 2 the instance array has
\* exactly N-1 records and record i is built from instruction i+1.
C4_PickerSkipsFirst ==
    kind = "picker" =>
        LET N == Len(instructions)
        IN /\ N >= 1 => draw_count = N - 1
           /\ N \in {0, 1} => draw_count = 0
           /\ N >= 2 =>
                /\ Len(instance_data) = N - 1
                /\ \A i \in 1..(N - 1) :
                     /\ instance_data[i].world = instructions[i + 1].world
                     /\ instance_data[i].texture_index = lookup[instructions[i + 1].texture]

\* A picker prepare whose first instruction differs from all others.
C4_Witness ==
    /\ kind = "picker"
    /\ last_op = "prepare"
    /\ Len(instructions) >= 3
    /\ \A i \in 2..Len(instructions) : instructions[i] # instructions[1]
    /\ draw_count = Len(instructions) - 1
    /\ Len(instance_data) = draw_count

\* Comparison to within 1e-6, as assert_relative_eq!(.., epsilon = 1e-6).
EPSILON == <<1, 1000000>>
Within(a, b) == ~RLt(EPSILON, RAbs(RSub(a, b)))

\* Depth of a clip-space vector after the perspective divide.
DepthOf(clip) == RDiv(clip.z, clip.w)

\* C5 (as claimed): for every clip-space vector v with v.w # 0 the round trip
\* screen_to_clip_space(clip_to_screen_space(v)) returns x = v.x and y = v.y
\* to within 1e-6.
C5_RoundTripAnyW ==
    (converted # None /\ clip_space_position.w # R(0)) =>
        /\ Within(converted.x, clip_space_position.x)
        /\ Within(converted.y, clip_space_position.y)

\* C5 (amended): for every clip-space vector v with v.w # 0 the round trip
\* returns x = v.x / v.w and y = v.y / v.w to within 1e-6, which is v.x and
\* v.y when v.w = 1.
C5_RoundTripDividesByW ==
    (converted # None /\ clip_space_position.w # R(0)) =>
        /\ Within(converted.x, RDiv(clip_space_position.x, clip_space_position.w))
        /\ Within(converted.y, RDiv(clip_space_position.y, clip_space_position.w))
        /\ clip_space_position.w = R(1) =>
             /\ Within(converted.x, clip_space_position.x)
             /\ Within(converted.y, clip_space_position.y)

\* A round trip of a vector with w # 1 that does not give back its x.
C5_Witness ==
    /\ converted # None
    /\ clip_space_position.w \notin {R(0), R(1)}
    /\ clip_space_position.x # R(0)
    /\ clip_space_position.y # R(0)
    /\ converted.x # clip_space_position.x

\* C6: for every clip-space position v with v.z = 0 and v.w = 1 the round
\* trip reproduces all four components of v.
C6_RoundTripOnPlane ==
    (converted # None /\ clip_space_position.z = R(0) /\ clip_space_position.w = R(1)) =>
        /\ Within(converted.x, clip_space_position.x)
        /\ Within(converted.y, clip_space_position.y)
        /\ Within(converted.z, clip_space_position.z)
        /\ Within(converted.w, clip_space_position.w)

\* The round trip of the vector (0.5, -0.3, 0, 1) of the conversion test.
C6_Witness ==
    /\ converted # None
    /\ clip_space_position = Vector4(<<1, 2>>, <<-3, 10>>, R(0), R(1))
    /\ converted = clip_space_position

\* C7: clip_to_screen_space maps every clip-space vector with x = 0, y = 0
\* and w # 0 to exactly the screen centre (0.5, 0.5), whatever z, w, the
\* camera position and the generated projection are.
C7_OriginMapsToCentre ==
    (/\ screen_space_position # None
     /\ clip_space_position.x = R(0)
     /\ clip_space_position.y = R(0)
     /\ clip_space_position.w # R(0)) =>
        screen_space_position = Vector2(<<1, 2>>, <<1, 2>>)

\* The centre reached from a vector with z = 1 and w # 1, after the camera
\* moved and generated a projection.
C7_Witness ==
    /\ screen_space_position = Vector2(<<1, 2>>, <<1, 2>>)
    /\ clip_space_position.x = R(0)
    /\ clip_space_position.y = R(0)
    /\ clip_space_position.z = R(1)
    /\ clip_space_position.w \notin {R(0), R(1)}
    /\ projection.type # "none"
    /\ camera_position = <<2, 2, 1>>

C9_OrthographicReversed ==
    (projection.type = "orthographic" /\ view_position # None) =>
        /\ view_position.z = projection.near => DepthOf(clip_space_position) = R(1)
        /\ view_position.z = projection.far => DepthOf(clip_space_position) = R(0)

\* C9 (amended): orthographic_lh with near < far produces forward depth:
\* z = near maps to depth 0 and z = far maps to depth 1.
C9_OrthographicForward ==
    (projection.type = "orthographic" /\ view_position # None) =>
        /\ view_position.z = projection.near => DepthOf(clip_space_position) = R(0)
        /\ view_position.z = projection.far => DepthOf(clip_space_position) = R(1)

\* A point on the far plane of an orthographic projection.
C9_Witness ==
    /\ projection.type = "orthographic"
    /\ view_position # None
    /\ view_position.z = projection.far
    /\ RLt(projection.near, projection.far)
    /\ DepthOf(clip_space_position) = R(1)

\* Two camera offsets have the same XZ heading when their XZ parts are
\* positive multiples of each other.
SameHeading(position, other) ==
    LET x1 == focus_point[1] - position[1]
        z1 == focus_point[3] - position[3]
        x2 == focus_point[1] - other[1]
        z2 == focus_point[3] - other[3]
    IN x1 * z2 - z1 * x2 = 0 /\ x1 * x2 + z1 * z2 > 0

\* C10: the octant of camera_direction depends only on the direction of the
\* camera's XZ view vector: every camera position with the same XZ heading
\* (a positive multiple of the vector, as after a change of pitch) yields the
\* same index, and the index is in 0..7.
C10_ScaleInvariant ==
    octant # NoOctant =>
        /\ octant \in 0..7
        /\ \A other \in CameraPositions :
             SameHeading(camera_position, other) =>
                camera_direction_of(other, focus_point) = octant

\* ------------------------------------------------- properties, second part
\* The payload a record of the instance array copies from its instruction.
PayloadOf(k, instruction) ==
    IF k = "point_shadow" THEN instruction.model_matrix ELSE instruction.world

\* The arrays, tables, buffers and bind group a batcher owns.
batch_state == <<draw_count, instance_data, lookup, instance_data_buffer, bind_group,
                 instance_indices, draw_commands, instance_index_vertex_buffer,
                 command_buffer>>

\* C11: in the point shadow batcher, after a prepare with zero instructions
\* every following draw issues no GPU command, whatever earlier frames
\* prepared and whatever model count the draw data carries.
C11_EmptyPrepareStopsDraws ==
    (kind = "point_shadow" /\ instructions = <<>> /\ last_op \in {"draw", "panic"})
        => pass = <<>>

\* C12: a prepare with zero drawable instructions leaves the instance array,
\* the dedup table, the instance buffer and the bind group (and the point
\* shadow drawer's index and command arrays and buffers) exactly as they were.
C12_EmptyPrepareKeepsBatch ==
    [][(last_op' = "prepare" /\ DrawableCount(kind, instructions') = 0)
          => UNCHANGED <<instance_data, lookup, instance_data_buffer, bind_group,
                         instance_indices, draw_commands, instance_index_vertex_buffer,
                         command_buffer>>]_vars

\* An empty prepare met a batch and a grown buffer left by an earlier frame.
C12_Witness ==
    /\ last_op = "prepare"
    /\ DrawableCount(kind, instructions) = 0
    /\ instance_data # <<>>
    /\ instance_data_buffer.capacity > InitialCapacity

UnpaddedViews ==
    IF Len(Processed) > 0
    THEN push_fallback(GeometryEntity_loop(Processed, EmptyBatch).texture_views)
    ELSE <<SolidPixel>>

\* C14: entity and picker batchers.  Without partially-bound arrays, after
\* construction and after every non-empty prepare the slot array has at
\* least MAX_BINDING_TEXTURE_ARRAY_COUNT entries and every entry added by
\* padding equals the entry in slot 0; with partially-bound arrays no padding
\* entry is added.
C14_PaddedToMaximum ==
    Textured =>
        /\ ~partially_bound =>
             Len(bind_group.texture_views) >= MAX_BINDING_TEXTURE_ARRAY_COUNT
        /\ (Len(Processed) > 0 \/ instance_data = <<>>) =>
             LET views == bind_group.texture_views
                 raw == UnpaddedViews
             IN /\ Len(views) >= Len(raw)
                /\ SubSeq(views, 1, Len(raw)) = raw
                /\ partially_bound => views = raw
                /\ ~partially_bound =>
                     \A s \in (Len(raw) + 1)..Len(views) : views[s] = views[1]

\* A prepare whose slot array needed padding on a backend without
\* partially-bound arrays.
C14_Witness ==
    /\ Textured
    /\ ~partially_bound
    /\ last_op = "prepare"
    /\ Len(Processed) > 0
    /\ Len(UnpaddedViews) < MAX_BINDING_TEXTURE_ARRAY_COUNT
    /\ Len(bind_group.texture_views) = MAX_BINDING_TEXTURE_ARRAY_COUNT
    /\ bind_group.texture_views[MAX_BINDING_TEXTURE_ARRAY_COUNT] = Processed[1].texture

\* C15: after upload the bind group references the current instance buffer,
\* for every batcher kind and every sequence of prepare / upload / draw calls
\* before it.
C15_BindGroupFollowsBuffer ==
    last_op = "upload" => bind_group.buffer = instance_data_buffer.capacity

\* An upload of the point shadow drawer that had to reallocate the buffer.
C15_Witness ==
    /\ kind = "point_shadow"
    /\ last_op = "upload"
    /\ Len(instance_data) > InitialCapacity
    /\ instance_data_buffer.capacity > InitialCapacity
    /\ bind_group.buffer = instance_data_buffer.capacity

\* The draw calls among the commands of a pass.
IsDrawCall(command) == command.op \in {"draw_indexed", "multi_draw_indexed_indirect"}
DrawCalls(commands) == SelectSeq(commands, IsDrawCall)

\* The draw call the per-instance loop issues for the k-th instance of the
\* range the draw data selects.
InstanceDraw(k) ==
    LET instruction == instructions[draw_data.model_offset + k]
    IN DrawIndexed(instruction.index_offset,
                   instruction.index_offset + instruction.index_count,
                   instruction.base_vertex,
                   draw_data.model_offset + k - 1)

\* What a completed point shadow draw with a non-zero count recorded, given
\* whether the indirect path is the one to be taken.
PointShadowDrawShape(indirect) ==
    LET calls == DrawCalls(pass)
    IN /\ Len(pass) > 2
       /\ pass[1] = Command("set_pipeline", 0, 0)
       /\ pass[2] = Command("set_bind_group", 2, 0)
       /\ ~IsDrawCall(pass[1]) /\ ~IsDrawCall(pass[2])
       /\ indirect =>
            calls = <<MultiDrawIndexedIndirect(draw_data.model_offset,
                                               draw_data.model_count)>>
       /\ ~indirect =>
            /\ Len(calls) = draw_data.model_count
            /\ \A k \in 1..draw_data.model_count : calls[k] = InstanceDraw(k)

PointShadowDrawn ==
    kind = "point_shadow" /\ last_op = "draw" /\ draw_data.model_count > 0

\* C16 as stated: a point shadow draw with a non-zero count binds the pipeline
\* and the bind group first, then issues exactly one indirect draw call for
\* all `count` instances if multi-draw-indirect is supported, and exactly
\* `count` draw calls, one per instance in instruction order, if it is not.
C16_IndirectWhenSupported ==
    PointShadowDrawn => PointShadowDrawShape(multi_draw_indirect_support)

\* C16 amended: the single indirect draw call is issued if multi-draw-indirect
\* is supported and bindless support is Full or Limited; in every other case
\* a draw that completes issues exactly `count` draw calls, one per instance
\* in instruction order.
C16_IndirectWhenBindless ==
    PointShadowDrawn =>
        PointShadowDrawShape(multi_draw_indirect_support
                             /\ bindless_support \in {"Full", "Limited"})

\* A draw of two different instances from offset 1 on a device that supports
\* multi-draw-indirect but has no bindless support.
C16_Witness ==
    /\ PointShadowDrawn
    /\ multi_draw_indirect_support
    /\ bindless_support = "None"
    /\ draw_data = [model_offset |-> 1, model_count |-> 2]
    /\ instructions[2] # instructions[3]
    /\ Len(DrawCalls(pass)) = 2

\* C17: a draw call changes nothing the batcher owns, and a draw repeated
\* with the same draw data records the same commands again.
C17_DrawOnlyReads ==
    [][last_op' \in {"draw", "panic"} =>
          /\ UNCHANGED batch_state
          /\ (last_op = "draw" /\ draw_data' = draw_data) => pass' = pass]_vars

\* A draw that recorded commands for a full batch.
C17_Witness ==
    /\ last_op = "draw"
    /\ pass # <<>>
    /\ Len(instance_data) = MaxInstr
    /\ kind \in {"entity", "point_shadow"}

\* C18: in the point shadow batcher the draw-command, instance and
\* instance-index arrays always have equal length; after a prepare with N > 0
\* instructions each has N entries, command i carries index_count,
\* first_index (= index_offset) and base_vertex of instruction i with
\* instance_count 1 and first_instance i, and instance-index entry i is i
\* (counted from 0).
C18_CommandPerInstruction ==
    kind = "point_shadow" =>
        /\ Len(instance_data) = Len(instance_indices)
        /\ Len(instance_data) = Len(draw_commands)
        /\ Len(instructions) > 0 =>
             /\ Len(draw_commands) = Len(instructions)
             /\ \A i \in 1..Len(instructions) :
                  /\ draw_commands[i].index_count = instructions[i].index_count
                  /\ draw_commands[i].first_index = instructions[i].index_offset
                  /\ draw_commands[i].base_vertex = instructions[i].base_vertex
                  /\ draw_commands[i].instance_count = 1
                  /\ draw_commands[i].first_instance = i - 1
                  /\ instance_indices[i] = i - 1

\* A prepare of the longest list, with different models in front.
C18_Witness ==
    /\ kind = "point_shadow"
    /\ last_op = "prepare"
    /\ Len(instructions) = MaxInstr
    /\ instructions[1] # instructions[2]
    /\ Len(draw_commands) = MaxInstr

\* The keys construction compiled a pipeline for.
ConstructionKeys ==
    LET modes == Blitter_modes(surface_texture_format, color_texture_format, msaa)
    IN {modes[i] : i \in 1..Len(modes)}

\* C19: a blitter draw whose key is cached records exactly set_pipeline with
\* the cached pipeline, set_bind_group(1) and one draw of 3 vertices and 1
\* instance; a draw whose key is not cached panics, records no command and
\* compiles no pipeline, so only keys of construction ever draw.
C19_BlitterDraw ==
    /\ blit_status = "draw" =>
         /\ blit_key \in ConstructionKeys
         /\ blit_key \in DOMAIN pipeline_cache
         /\ pipeline_cache[blit_key] =
                create_pipeline(blit_key.format, blit_key.msaa, blit_key.luma_in_alpha,
                                blit_key.alpha_blending)
         /\ blit_pass = <<SetPipeline(pipeline_cache[blit_key]),
                          Command("set_bind_group", 1, 0),
                          Command("draw", 3, 1)>>
    /\ blit_status = "panic" =>
         /\ blit_key \notin ConstructionKeys
         /\ blit_key \notin DOMAIN pipeline_cache
         /\ blit_pass = <<>>
    /\ blit_status = "new" => blit_key = NoKey /\ blit_pass = <<>>

\* A draw that asked for alpha blending of a two-sample source, which no
\* construction mode covers.
C19_Witness ==
    /\ blit_status = "panic"
    /\ blit_key # NoKey
    /\ blit_key.format = color_texture_format
    /\ blit_key.msaa = "X2"
    /\ blit_key.alpha_blending
    /\ blit_pass = <<>>

\* C20: after construction no draw call, hit or miss, changes the pipeline
\* cache.
C20_CacheFrozen ==
    [][pipeline_cache' = pipeline_cache]_vars

\* A draw that hit the alpha-blending pipeline compiled at construction.
C20_Witness ==
    /\ blit_status = "draw"
    /\ blit_key # NoKey
    /\ blit_key.alpha_blending
    /\ DOMAIN pipeline_cache = ConstructionKeys

\* C21: orthographic_lh(left, right, bottom, top, near, far) of a box with
\* left # right, bottom # top and near # far maps the box to clip space with
\* forward depth: x = left maps to -1 and x = right to +1, y = bottom to -1
\* and y = top to +1, z = near to depth 0 and z = far to depth 1, and w
\* stays 1, for the corners of the box and for every projected point.
C21_BoxToClipSpace ==
    projection.type = "orthographic" =>
        LET m == projection.matrix
            low == Matrix4_mul(m, Vector4(projection.left, projection.bottom,
                                          projection.near, R(1)))
            high == Matrix4_mul(m, Vector4(projection.right, projection.top,
                                           projection.far, R(1)))
        IN /\ low = Vector4(R(-1), R(-1), R(0), R(1))
           /\ high = Vector4(R(1), R(1), R(1), R(1))
           /\ view_position # None =>
                /\ view_position.x = projection.left => clip_space_position.x = R(-1)
                /\ view_position.x = projection.right => clip_space_position.x = R(1)
                /\ view_position.y = projection.bottom => clip_space_position.y = R(-1)
                /\ view_position.y = projection.top => clip_space_position.y = R(1)
                /\ view_position.z = projection.near => clip_space_position.z = R(0)
                /\ view_position.z = projection.far => clip_space_position.z = R(1)
                /\ clip_space_position.w = R(1)

\* The left bottom near corner of the off-centre box, projected.
C21_Witness ==
    /\ projection.type = "orthographic"
    /\ projection.left = R(0)
    /\ projection.right = R(4)
    /\ view_position # None
    /\ view_position.x = projection.left
    /\ view_position.y = projection.bottom
    /\ view_position.z = projection.near
    /\ clip_space_position = Vector4(R(-1), R(-1), R(0), R(1))

\* A tile is submerged when one of its corners, at minus its height, lies
\* strictly below the given height.
Submerged(tile, height) ==
    \E corner \in {tile.southwest_corner_height, tile.southeast_corner_height,
                   tile.northwest_corner_height, tile.northeast_corner_height} :
        0 - corner < height

\* Indices (from 0) of the submerged ground tiles, in tile order.
SubmergedTiles ==
    LET height == max_water_height_of(water_settings)
    IN SelectSeq([i \in 1..Len(ground_tiles) |-> i - 1],
                 LAMBDA index : Submerged(ground_tiles[index + 1], height))

\* C22: generate_vertices emits a water quad for a ground tile if and only if
\* the tile's lowest point (the minimum of its four negated corner heights) is
\* strictly below max_water_height = water_level + wave_height: the tiles that
\* are not submerged contribute no vertex and no index, and the emitted quads
\* keep tile order, with grid_u = index mod width and grid_v = index div width.
C22_SubmergedTilesOnly ==
    (water_plane # "unloaded" /\ water_settings # None) =>
        /\ Len(water_vertices) = 4 * Len(SubmergedTiles)
        /\ Len(water_indices) = 6 * Len(SubmergedTiles)
        /\ \A j \in 1..Len(SubmergedTiles) : \A corner \in 1..4 :
              LET vertex == water_vertices[4 * (j - 1) + corner]
              IN /\ vertex.grid_u = SubmergedTiles[j] % ground_width
                 /\ vertex.grid_v = SubmergedTiles[j] \div ground_width

\* Two tiles in one column: the first has its lowest point exactly at
\* max_water_height and is left out, the second is emitted in row 1.
C22_Witness ==
    /\ water_plane = "some"
    /\ Len(ground_tiles) = 2
    /\ ground_width = 1
    /\ lowest_point(ground_tiles[1]) = max_water_height_of(water_settings)
    /\ Len(water_vertices) = 4
    /\ water_vertices[1].grid_u = 0
    /\ water_vertices[1].grid_v = 1

\* C23: entity and picker batchers.  After every non-empty prepare, for every
\* instance record the texture view stored at position texture_index of the
\* texture-slot array bound in the bind group is the texture of the
\* instruction the record was built from.
C23_SlotHoldsTexture ==
    (Textured /\ Len(Processed) > 0) =>
        /\ Len(instance_data) = Len(Processed)
        /\ \A i \in 1..Len(Processed) :
             LET slot == instance_data[i].texture_index
             IN /\ slot >= 0
                /\ slot < Len(bind_group.texture_views)
                /\ bind_group.texture_views[slot + 1] = Processed[i].texture

\* A prepared list whose last instruction reuses the handle of an earlier one
\* after another handle came in between.
C23_Witness ==
    /\ Textured
    /\ last_op = "prepare"
    /\ Len(Processed) >= 3
    /\ Processed[Len(Processed)].texture = Processed[1].texture
    /\ Processed[2].texture # Processed[1].texture
    /\ instance_data[Len(Processed)].texture_index = instance_data[1].texture_index
    /\ bind_group.texture_views[instance_data[2].texture_index + 1] = Processed[2].texture

\* C24: entity and picker batchers.  Whenever the processed instructions
\* reference at most MAX_BINDING_TEXTURE_ARRAY_COUNT distinct textures, the
\* texture-slot array handed to the bind group after prepare has at most
\* MAX_BINDING_TEXTURE_ARRAY_COUNT entries, the count declared in the
\* bind-group layout, and exactly that many when the backend lacks
\* partially-bound arrays.
C24_SlotArrayFitsLayout ==
    (/\ Textured
     /\ Len(Processed) > 0
     /\ Cardinality(HandlesOf(Processed)) <= MAX_BINDING_TEXTURE_ARRAY_COUNT) =>
        /\ Len(bind_group.texture_views) <= MAX_BINDING_TEXTURE_ARRAY_COUNT
        /\ ~partially_bound =>
             Len(bind_group.texture_views) = MAX_BINDING_TEXTURE_ARRAY_COUNT

\* The instanced draw calls among the commands of a pass.
InstancedDraws(commands) ==
    SelectSeq(commands, LAMBDA command : command.op \in {"draw", "draw_indexed"})

\* C25: entity, picker and AABB batchers.  In every state reachable by any
\* sequence of prepare, upload and draw calls, draw_count is at most the
\* length of the instance array.  An upload writes the whole instance array
\* into a buffer that holds it, and a draw records at most one instanced draw,
\* over the instances 0..draw_count, so after an upload the draw addresses
\* only records that were uploaded.
C25_DrawCountWithinInstances ==
    kind \in {"entity", "picker", "aabb"} =>
        /\ draw_count <= Len(instance_data)
        /\ last_op = "upload" => Len(instance_data) <= instance_data_buffer.capacity
        /\ last_op = "draw" =>
             /\ Len(InstancedDraws(pass)) <= 1
             /\ \A k \in 1..Len(InstancedDraws(pass)) :
                  /\ InstancedDraws(pass)[k].count = draw_count
                  /\ InstancedDraws(pass)[k].count <= Len(instance_data)

\* A draw of an AABB batch that outgrew the initial buffer: the draw covers
\* the whole instance array, which the grown buffer holds.
C25_Witness ==
    /\ kind = "aabb"
    /\ last_op = "draw"
    /\ draw_count > InitialCapacity
    /\ draw_count = Len(instance_data)
    /\ instance_data_buffer.capacity >= draw_count
    /\ Len(InstancedDraws(pass)) = 1
    /\ InstancedDraws(pass)[1].count = draw_count

\* The draw call that one indirect command describes.
DrawOfCommand(command) ==
    [op |-> "draw_indexed",
     indices |-> <<command.first_index, command.first_index + command.index_count>>,
     base_vertex |-> command.base_vertex,
     instances |-> <<command.first_instance, command.first_instance + command.instance_count>>]

\* C26: point shadow batcher on a bindless backend, drawing with the
\* instruction list of the latest prepare.  The per-instance path and the
\* multi-draw-indirect path describe the same draws: for each i in
\* offset..offset+count the draw call of the per-instance path (index range
\* index_offset..index_offset+index_count, base_vertex, instance range
\* i..i+1) has the values of command i of the draw-command array that upload
\* writes, and the indirect call covers exactly the commands
\* offset..offset+count.
C26_FallbackMatchesCommands ==
    (/\ kind = "point_shadow"
     /\ bindless_support \in {"Full", "Limited"}
     /\ last_op = "draw"
     /\ draw_data.model_count > 0) =>
        LET offset == draw_data.model_offset
            count == draw_data.model_count
        IN IF multi_draw_indirect_support
           THEN /\ DrawCalls(pass) = <<MultiDrawIndexedIndirect(offset, count)>>
                /\ \A k \in 1..count :
                     offset + k <= Len(instructions) =>
                        /\ offset + k <= Len(draw_commands)
                        /\ DrawOfCommand(draw_commands[offset + k]) =
                             DrawIndexed(instructions[offset + k].index_offset,
                                         instructions[offset + k].index_offset
                                            + instructions[offset + k].index_count,
                                         instructions[offset + k].base_vertex,
                                         offset + k - 1)
           ELSE /\ Len(DrawCalls(pass)) = count
                /\ offset + count <= Len(draw_commands)
                /\ \A k \in 1..count :
                     DrawCalls(pass)[k] = DrawOfCommand(draw_commands[offset + k])

\* A per-instance draw of the last two of three prepared models.
C26_Witness ==
    /\ kind = "point_shadow"
    /\ bindless_support = "Limited"
    /\ ~multi_draw_indirect_support
    /\ last_op = "draw"
    /\ draw_data.model_offset = 1
    /\ draw_data.model_count = 2
    /\ Len(draw_commands) = 3
    /\ Len(DrawCalls(pass)) = 2
    /\ DrawCalls(pass)[2] = DrawOfCommand(draw_commands[3])

\* The five keys of the blitter's construction, equal keys being one key.
FiveKeys ==
    {PipelineKey(surface_texture_format, "Off", FALSE, FALSE),
     PipelineKey(color_texture_format, msaa, FALSE, FALSE),
     PipelineKey(FXAA_COLOR_LUMA_TEXTURE_FORMAT, msaa, TRUE, FALSE),
     PipelineKey(color_texture_format, "Off", FALSE, FALSE),
     PipelineKey(color_texture_format, "X4", FALSE, TRUE)}

\* C27: after PostProcessingBlitterDrawer::new the pipeline cache holds an
\* entry for exactly the keys (surface format, Off, false, false), (colour
\* format, configured msaa, false, false), (FXAA colour-luma format,
\* configured msaa, true, false), (colour format, Off, false, false) and
\* (colour format, X4, false, true), and no others; a draw with alpha
\* blending hits only for the colour format with a 4x multisampled source and
\* luma_in_alpha = false.
C27_ExactlyFiveKeys ==
    /\ DOMAIN pipeline_cache = FiveKeys
    /\ \A key \in DOMAIN pipeline_cache :
         pipeline_cache[key] = create_pipeline(key.format, key.msaa, key.luma_in_alpha,
                                               key.alpha_blending)
    /\ (blit_key # NoKey /\ blit_key.alpha_blending) =>
         (blit_status = "draw"
            <=> blit_key = PipelineKey(color_texture_format, "X4", FALSE, TRUE))
    /\ blit_key # NoKey => (blit_status = "draw" <=> blit_key \in FiveKeys)

\* A blitter whose surface and colour formats agree and whose multisampling
\* is off, so that the five keys are three entries, after an alpha-blending
\* draw that hit.
C27_Witness ==
    /\ surface_texture_format = color_texture_format
    /\ msaa = "Off"
    /\ Cardinality(DOMAIN pipeline_cache) = 3
    /\ blit_status = "draw"
    /\ blit_key = PipelineKey(color_texture_format, "X4", FALSE, TRUE)

\* What screen_to_clip_space always returns: z = 0 and w = 1, with the screen
\* corner (0, 0) at (-1, 1) and the corner (1, 1) at (1, -1).
ReverseFixedPoints ==
    f32_clip_space_position # None =>
        /\ f32_clip_space_position.z = F32_ZERO
        /\ f32_clip_space_position.w = F32_ONE
        /\ f32_screen_space_position = Vector2(F32_ZERO, F32_ZERO) =>
             f32_clip_space_position =
                Vector4(F32_neg(F32_ONE), F32_ONE, F32_ZERO, F32_ONE)
        /\ f32_screen_space_position = Vector2(F32_ONE, F32_ONE) =>
             f32_clip_space_position =
                Vector4(F32_ONE, F32_neg(F32_ONE), F32_ZERO, F32_ONE)

\* |a - b| <= 1e-6 for two f32 values
F32_within(a, b) == Abs(a - b) <= Quantum \div 1000000

OnScreen(coordinate) == F32_ZERO <= coordinate /\ coordinate <= F32_ONE

\* C28 (as claimed): the reverse round trip is exact for every screen
\* position: clip_to_screen_space(screen_to_clip_space(uv)) equals uv, and
\* screen_to_clip_space always returns z = 0 and w = 1, mapping (0, 0) to
\* (-1, 1) and (1, 1) to (1, -1).
C28_ReverseRoundTripExact ==
    /\ ReverseFixedPoints
    /\ f32_round_trip # None => f32_round_trip = f32_screen_space_position

\* C28 (amended): for every screen position with both coordinates in [0, 1]
\* the reverse round trip equals uv to within 1e-6, and exactly in each
\* coordinate that is 0 or at least 0.25; screen_to_clip_space always returns
\* z = 0 and w = 1, mapping (0, 0) to (-1, 1) and (1, 1) to (1, -1).
C28_ReverseRoundTripWithin ==
    /\ ReverseFixedPoints
    /\ (/\ f32_round_trip # None
        /\ OnScreen(f32_screen_space_position.x)
        /\ OnScreen(f32_screen_space_position.y)) =>
          /\ F32_within(f32_round_trip.x, f32_screen_space_position.x)
          /\ F32_within(f32_round_trip.y, f32_screen_space_position.y)
          /\ (f32_screen_space_position.x = F32_ZERO
                \/ f32_screen_space_position.x >= F32_ONE \div 4) =>
               f32_round_trip.x = f32_screen_space_position.x
          /\ (f32_screen_space_position.y = F32_ZERO
                \/ f32_screen_space_position.y >= F32_ONE \div 4) =>
               f32_round_trip.y = f32_screen_space_position.y

\* The round trip of the screen position (0.1, 0.2): both coordinates come
\* back changed, by less than 1e-6.
C28_Witness ==
    /\ f32_round_trip # None
    /\ f32_screen_space_position = Vector2(13421773, 26843546)
    /\ f32_round_trip.x # f32_screen_space_position.x
    /\ f32_round_trip.y # f32_screen_space_position.y
    /\ F32_within(f32_round_trip.x, f32_screen_space_position.x)
    /\ F32_within(f32_round_trip.y, f32_screen_space_position.y)

\* Number of quads in the generated index data.
EmittedTiles == Len(water_indices) \div 6

\* C29: generate_vertices returns index data that is valid for its vertex
\* data: for the j-th emitted tile (j from 0) it appends exactly 4 vertices
\* and the 6 indices [4j, 4j+1, 4j+2, 4j+1, 4j+3, 4j+2], so the result has
\* 4 * T vertices and 6 * T indices for T emitted tiles, and every index is
\* smaller than the number of vertices.
C29_IndicesAddressVertices ==
    water_plane # "unloaded" =>
        /\ Len(water_indices) = 6 * EmittedTiles
        /\ Len(water_vertices) = 4 * EmittedTiles
        /\ water_settings # None => EmittedTiles = Len(SubmergedTiles)
        /\ \A j \in 0..(EmittedTiles - 1) :
             SubSeq(water_indices, 6 * j + 1, 6 * j + 6) =
                <<4 * j, 4 * j + 1, 4 * j + 2, 4 * j + 1, 4 * j + 3, 4 * j + 2>>
        /\ \A i \in 1..Len(water_indices) :
             water_indices[i] >= 0 /\ water_indices[i] < Len(water_vertices)

\* A water plane of one quad, generated for the second of two tiles: its
\* indices start at 0 although the tile has index 1.
C29_Witness ==
    /\ water_plane = "some"
    /\ Len(ground_tiles) = 2
    /\ SubmergedTiles = <<1>>
    /\ water_indices = <<0, 1, 2, 1, 3, 2>>
    /\ Len(water_vertices) = 4

====
